---- MODULE Spec2Model ----
(***************************************************************************)
(* Verification model of the quantifai attribution engine                  *)
(* (AIDetectionEngine), its time-bucketing layer (BucketAnalyzer) and the  *)
(* helpers around them.                                                    *)
(*                                                                         *)
(* JavaScript numbers that hold scores, weights and cut-offs are modelled  *)
(* as exact rationals <<n, d>> in lowest terms (d > 0); counts, lengths    *)
(* and millisecond times are integers.                                     *)
(***************************************************************************)
EXTENDS Integers, Sequences, FiniteSets, TLC

(***************************************************************************)
(* Bounds of the model.                                                    *)
(***************************************************************************)
\* longest event list handed to analyze
MaxEvents == 3
\* longest event list handed to createBuckets
MaxBucketEvents == 3
\* most loop iterations of createBuckets the model follows
MaxBuckets == 6
\* most weight increases applied to one configuration
MaxRaises == 1
\* most lines of an uploaded file
MaxLines == 2
\* longest edit history handed to assessQuality
MaxChanges == 3
\* most updateConfig calls on one engine
MaxUpdates == 2
\* most notifications delivered to one ChangeTracker
MaxNotifications == 2

(***************************************************************************)
(* Exact arithmetic on scores.                                             *)
(***************************************************************************)
Abs(x) == IF x < 0 THEN -x ELSE x

RECURSIVE GCD(_, _)
GCD(a, b) == IF b = 0 THEN a ELSE GCD(b, a % b)

\* the number n/d (d # 0) in lowest terms with a positive denominator
R(n, d) ==
    LET g == GCD(Abs(n), Abs(d))
        s == IF d < 0 THEN -1 ELSE 1
    IN  << (s * n) \div g, (s * d) \div g >>

Zero == R(0, 1)
One == R(1, 1)
RAdd(x, y) ==
    LET g == GCD(x[2], y[2])
    IN  R(x[1] * (y[2] \div g) + y[1] * (x[2] \div g), (x[2] \div g) * y[2])
RSub(x, y) ==
    LET g == GCD(x[2], y[2])
    IN  R(x[1] * (y[2] \div g) - y[1] * (x[2] \div g), (x[2] \div g) * y[2])
RMul(x, y) ==
    LET g == GCD(Abs(x[1]), y[2])
        h == GCD(Abs(y[1]), x[2])
    IN  R((x[1] \div g) * (y[1] \div h), (x[2] \div h) * (y[2] \div g))
RLt(x, y) ==
    LET g == GCD(x[2], y[2]) IN x[1] * (y[2] \div g) < y[1] * (x[2] \div g)
RLe(x, y) ==
    LET g == GCD(x[2], y[2]) IN x[1] * (y[2] \div g) <= y[1] * (x[2] \div g)
\* Math.min
RMin(x, y) == IF RLt(y, x) THEN y ELSE x
InUnit(x) == RLe(Zero, x) /\ RLe(x, One)

RECURSIVE RSum(_)
RSum(s) == IF s = << >> THEN Zero ELSE RAdd(RSum(SubSeq(s, 1, Len(s) - 1)), s[Len(s)])

RECURSIVE ISum(_)
ISum(s) == IF s = << >> THEN 0 ELSE ISum(SubSeq(s, 1, Len(s) - 1)) + s[Len(s)]

\* Array.prototype.filter: the elements satisfying P, in order
Filter(s, P(_)) == SelectSeq(s, P)

\* Array.prototype.some
Some(s, P(_)) == \E i \in DOMAIN s : P(s[i])

(***************************************************************************)
(* Configuration (AIDetectionConfig).                                      *)
(***************************************************************************)
\* Object.entries(heuristicScores): the six heuristics in insertion order
Heuristics ==
    << "bulkInsertionScore", "typingSpeedScore", "pastePatternScore",
       "externalToolScore", "contentPatternScore", "timingAnomalyScore" >>

HeuristicNames == { Heuristics[i] : i \in DOMAIN Heuristics }

Sections == { "weights", "thresholds", "classification", "bucketConfig" }

DEFAULT_BUCKET_CONFIG ==
    [ intervalMinutes |-> 15, aggregationMethod |-> "average", minEventsPerBucket |-> 1 ]

DEFAULT_AI_DETECTION_CONFIG ==
    [ weights |->
        [ bulkInsertionScore |-> R(25, 100), typingSpeedScore |-> R(20, 100),
          pastePatternScore |-> R(15, 100), externalToolScore |-> R(25, 100),
          contentPatternScore |-> R(10, 100), timingAnomalyScore |-> R(5, 100) ],
      thresholds |->
        [ bulkInsertionSize |-> 100, fastTypingSpeed |-> 300, pasteTimeThreshold |-> 100,
          longPauseThreshold |-> 30000, rapidSequenceThreshold |-> 100 ],
      classification |->
        [ humanThreshold |-> R(3, 10), aiAssistedThreshold |-> R(6, 10),
          aiGeneratedThreshold |-> R(8, 10) ],
      bucketConfig |-> DEFAULT_BUCKET_CONFIG ]

WeightSum(w) == RSum([ i \in DOMAIN Heuristics |-> w[Heuristics[i]] ])

(***************************************************************************)
(* Edit events (EnhancedChangeEvent).  The optional externalToolSignature  *)
(* and content carry a `present' flag; raw text is kept as its length and  *)
(* whether it holds a line break, which is all the engine reads of it.     *)
(***************************************************************************)
NoSignature ==
    [ present |-> FALSE, detected |-> FALSE, toolType |-> "unknown",
      confidence |-> Zero, indicators |-> << >> ]

Signature(det, tool, conf, ind) ==
    [ present |-> TRUE, detected |-> det, toolType |-> tool,
      confidence |-> conf, indicators |-> ind ]

NoContent == [ present |-> FALSE, length |-> 0, newline |-> FALSE ]
Content(len, nl) == [ present |-> TRUE, length |-> len, newline |-> nl ]

\* slow single-character typing inside the editor
HumanTyping ==
    [ changeType |-> "insert", contentLength |-> 1, timeSinceLastChange |-> 150,
      instantTypingSpeed |-> 120, burstDetected |-> FALSE,
      isCodeBlock |-> FALSE, isComment |-> FALSE, languageConstruct |-> "unknown",
      indentationLevel |-> 0, content |-> NoContent,
      externalToolSignature |-> NoSignature ]

\* a large block arriving at once from a detected external tool: every heuristic fires
AIBurst ==
    [ changeType |-> "insert", contentLength |-> 500, timeSinceLastChange |-> 10,
      instantTypingSpeed |-> 600, burstDetected |-> TRUE,
      isCodeBlock |-> TRUE, isComment |-> TRUE, languageConstruct |-> "function",
      indentationLevel |-> 1, content |-> Content(500, TRUE),
      externalToolSignature |-> Signature(TRUE, "claude-code", One, << "bulk-insert" >>) ]

\* a bulk paste with no external signature and no typing-speed sample
BulkPaste ==
    [ changeType |-> "insert", contentLength |-> 250, timeSinceLastChange |-> 20,
      instantTypingSpeed |-> 0, burstDetected |-> FALSE,
      isCodeBlock |-> TRUE, isComment |-> FALSE, languageConstruct |-> "class",
      indentationLevel |-> 0, content |-> NoContent,
      externalToolSignature |-> NoSignature ]

\* an external replace after a long break, with a half-confident signature
ExternalEdit ==
    [ changeType |-> "replace", contentLength |-> 80, timeSinceLastChange |-> 400000,
      instantTypingSpeed |-> 0, burstDetected |-> FALSE,
      isCodeBlock |-> FALSE, isComment |-> FALSE, languageConstruct |-> "",
      indentationLevel |-> 2, content |-> Content(80, FALSE),
      externalToolSignature |-> Signature(TRUE, "cursor", R(1, 2), << "file-watch" >>) ]

\* every field exactly on a default threshold; an undetected signature
Boundary ==
    [ changeType |-> "insert", contentLength |-> 100, timeSinceLastChange |-> 100,
      instantTypingSpeed |-> 300, burstDetected |-> TRUE,
      isCodeBlock |-> FALSE, isComment |-> TRUE, languageConstruct |-> "variable",
      indentationLevel |-> 0, content |-> Content(100, FALSE),
      externalToolSignature |-> Signature(FALSE, "copilot", R(9, 10), << "ignored" >>) ]

\* a deletion after a pause longer than the 10 s gap limit of the timeline
Deletion ==
    [ changeType |-> "delete", contentLength |-> 60, timeSinceLastChange |-> 20000,
      instantTypingSpeed |-> 450, burstDetected |-> FALSE,
      isCodeBlock |-> FALSE, isComment |-> FALSE, languageConstruct |-> "unknown",
      indentationLevel |-> 0, content |-> NoContent,
      externalToolSignature |-> NoSignature ]

Profiles == { HumanTyping, AIBurst, BulkPaste, ExternalEdit, Boundary, Deletion }

\* the event with behaviour p observed at time ts
At(p, ts) == [ timestamp |-> ts ] @@ p

(***************************************************************************)
(* AIDetectionEngine: the six heuristic scorers.  Each takes the event     *)
(* list and the configuration it reads (this.config).                      *)
(***************************************************************************)
Detected(change) ==
    change.externalToolSignature.present /\ change.externalToolSignature.detected

calculateBulkInsertionScore(changes, cfg) ==
    LET bulkChanges == Filter(changes, LAMBDA change :
            change.changeType = "insert"
            /\ change.contentLength > cfg.thresholds.bulkInsertionSize)
    IN  RMin(R(Len(bulkChanges), Len(changes)), One)

calculateTypingSpeedScore(changes, cfg) ==
    LET fast == cfg.thresholds.fastTypingSpeed
        sampled == Filter(changes, LAMBDA change : change.instantTypingSpeed > 0)
        typingSpeeds == [ i \in DOMAIN sampled |-> sampled[i].instantTypingSpeed ]
        n == Len(typingSpeeds)
        highSpeedCount == Len(Filter(typingSpeeds, LAMBDA speed : speed > fast))
        \* averageSpeed / (fast * 1.5); a zero divisor gives Infinity, which min cuts to 1
        speedScore == IF fast = 0 THEN One
                      ELSE RMin(R(2 * ISum(typingSpeeds), 3 * fast * n), One)
        frequencyScore == R(highSpeedCount, n)
    IN  IF n = 0 THEN Zero
        ELSE RMul(RAdd(speedScore, frequencyScore), R(1, 2))

calculatePastePatternScore(changes, cfg) ==
    LET pasteIndicators == Filter(changes, LAMBDA change :
            change.timeSinceLastChange < cfg.thresholds.pasteTimeThreshold
            /\ change.contentLength > 50
            /\ change.changeType = "insert")
        total == IF Len(changes) > 1 THEN Len(changes) ELSE 1
    IN  RMin(R(Len(pasteIndicators), total), One)

\* the score written to the trace, before the final Math.min
externalToolRawScore(changes) ==
    LET externalSignatures == Filter(changes, Detected)
        n == Len(externalSignatures)
        averageConfidence ==
            RMul(RSum([ i \in DOMAIN externalSignatures |->
                          externalSignatures[i].externalToolSignature.confidence ]),
                 R(1, n))
    IN  IF n = 0 THEN Zero
        ELSE RMul(R(n, Len(changes)), averageConfidence)

calculateExternalToolScore(changes, cfg) == RMin(externalToolRawScore(changes), One)

contentPatternRawScore(changes) ==
    LET total == IF Len(changes) > 1 THEN Len(changes) ELSE 1
        codeBlocks == Filter(changes, LAMBDA change : change.isCodeBlock)
        structuredCode == Filter(changes, LAMBDA change :
            change.languageConstruct # "unknown" /\ change.languageConstruct # "")
        comments == Filter(changes, LAMBDA change : change.isComment)
        codeBlockRatio == R(Len(codeBlocks), total)
        structuredRatio == R(Len(structuredCode), total)
        commentRatio == R(Len(comments), total)
    IN  RAdd(RAdd(RMul(codeBlockRatio, R(4, 10)), RMul(structuredRatio, R(4, 10))),
             RMul(commentRatio, R(2, 10)))

calculateContentPatternScore(changes, cfg) == RMin(contentPatternRawScore(changes), One)

calculateTimingAnomalyScore(changes, cfg) ==
    LET longPauses == Filter(changes, LAMBDA change :
            change.timeSinceLastChange > cfg.thresholds.longPauseThreshold)
        rapidSequences == Filter(changes, LAMBDA change :
            change.timeSinceLastChange < cfg.thresholds.rapidSequenceThreshold
            /\ change.timeSinceLastChange > 0)
    IN  IF Len(changes) < 2 THEN Zero
        ELSE RMin(R(Len(longPauses) + Len(rapidSequences), Len(changes)), One)

calculateHeuristicScores(changes, cfg) ==
    [ bulkInsertionScore |-> calculateBulkInsertionScore(changes, cfg),
      typingSpeedScore |-> calculateTypingSpeedScore(changes, cfg),
      pastePatternScore |-> calculatePastePatternScore(changes, cfg),
      externalToolScore |-> calculateExternalToolScore(changes, cfg),
      contentPatternScore |-> calculateContentPatternScore(changes, cfg),
      timingAnomalyScore |-> calculateTimingAnomalyScore(changes, cfg) ]

\* the six steps the scorers push on the decision trace, in call order
StepNames ==
    << "bulk-insertion-analysis", "typing-speed-analysis", "paste-pattern-analysis",
       "external-tool-analysis", "content-pattern-analysis", "timing-anomaly-analysis" >>

heuristicTrace(changes, cfg) ==
    LET scores == calculateHeuristicScores(changes, cfg)
        logged == [ scores EXCEPT !.externalToolScore = externalToolRawScore(changes),
                                  !.contentPatternScore = contentPatternRawScore(changes) ]
    IN  [ i \in DOMAIN Heuristics |-> [ step |-> StepNames[i], output |-> logged[Heuristics[i]] ] ]

(***************************************************************************)
(* Combination and classification.                                         *)
(***************************************************************************)
\* this.config.weights[heuristic] || 0
WeightOf(cfg, heuristic) ==
    IF heuristic \in DOMAIN cfg.weights THEN cfg.weights[heuristic] ELSE Zero

\* variant: the weight applied upside down (rawScore * (1 - weight))
combineScoresInverted(heuristicScores, cfg) ==
    [ heuristic \in HeuristicNames |->
        [ rawScore |-> heuristicScores[heuristic],
          weight |-> WeightOf(cfg, heuristic),
          weightedScore |->
              RMul(heuristicScores[heuristic], RSub(One, WeightOf(cfg, heuristic))) ] ]

combineScores(heuristicScores, cfg) ==
    [ heuristic \in HeuristicNames |->
        [ rawScore |-> heuristicScores[heuristic],
          weight |-> WeightOf(cfg, heuristic),
          weightedScore |-> RMul(heuristicScores[heuristic], WeightOf(cfg, heuristic)) ] ]

\* Object.values(weightedScores).reduce(sum + score.weightedScore, 0)
TotalScore(weightedScores) ==
    RSum([ i \in DOMAIN Heuristics |-> weightedScores[Heuristics[i]].weightedScore ])

\* variant: the cut-offs compared with <= instead of <
classifyByScoreInclusive(totalScore, cfg) ==
    IF RLe(totalScore, cfg.classification.humanThreshold)
    THEN [ source |-> "human", confidence |-> RSub(One, totalScore),
           aiProbability |-> totalScore ]
    ELSE IF RLe(totalScore, cfg.classification.aiAssistedThreshold)
    THEN [ source |-> "ai-assisted", confidence |-> R(8, 10),
           aiProbability |-> totalScore ]
    ELSE IF RLe(totalScore, cfg.classification.aiGeneratedThreshold)
    THEN [ source |-> "ai-generated", confidence |-> totalScore,
           aiProbability |-> totalScore ]
    ELSE [ source |-> "ai-generated", confidence |-> totalScore,
           aiProbability |-> RMin(RAdd(totalScore, R(1, 10)), One) ]

\* variant: the top rule's aiProbability without its Math.min
classifyByScoreNoCap(totalScore, cfg) ==
    IF RLt(totalScore, cfg.classification.humanThreshold)
    THEN [ source |-> "human", confidence |-> RSub(One, totalScore),
           aiProbability |-> totalScore ]
    ELSE IF RLt(totalScore, cfg.classification.aiAssistedThreshold)
    THEN [ source |-> "ai-assisted", confidence |-> R(8, 10),
           aiProbability |-> totalScore ]
    ELSE IF RLt(totalScore, cfg.classification.aiGeneratedThreshold)
    THEN [ source |-> "ai-generated", confidence |-> totalScore,
           aiProbability |-> totalScore ]
    ELSE [ source |-> "ai-generated", confidence |-> totalScore,
           aiProbability |-> RAdd(totalScore, R(1, 10)) ]

\* the threshold ladder of makeFinalDecision, before the mixed-pattern check
classifyByScore(totalScore, cfg) ==
    IF RLt(totalScore, cfg.classification.humanThreshold)
    THEN [ source |-> "human", confidence |-> RSub(One, totalScore),
           aiProbability |-> totalScore ]
    ELSE IF RLt(totalScore, cfg.classification.aiAssistedThreshold)
    THEN [ source |-> "ai-assisted", confidence |-> R(8, 10),
           aiProbability |-> totalScore ]
    ELSE IF RLt(totalScore, cfg.classification.aiGeneratedThreshold)
    THEN [ source |-> "ai-generated", confidence |-> totalScore,
           aiProbability |-> totalScore ]
    ELSE [ source |-> "ai-generated", confidence |-> totalScore,
           aiProbability |-> RMin(RAdd(totalScore, R(1, 10)), One) ]

hasHumanIndicators(changes, cfg) ==
    Some(changes, LAMBDA change :
        change.instantTypingSpeed > 0
        /\ change.instantTypingSpeed < cfg.thresholds.fastTypingSpeed
        /\ change.contentLength < 50)

hasAIIndicators(changes, cfg) ==
    Some(changes, LAMBDA change :
        Detected(change)
        \/ (change.contentLength > cfg.thresholds.bulkInsertionSize
            /\ change.timeSinceLastChange < cfg.thresholds.pasteTimeThreshold))

\* variant: the mixed override without its `source !== 'human'' test
makeFinalDecisionOverridesHuman(weightedScores, changes, cfg) ==
    LET byScore == classifyByScore(TotalScore(weightedScores), cfg)
    IN  IF hasHumanIndicators(changes, cfg) /\ hasAIIndicators(changes, cfg)
        THEN [ byScore EXCEPT !.source = "mixed",
                              !.confidence = RMin(byScore.confidence, R(8, 10)) ]
        ELSE byScore

makeFinalDecision(weightedScores, changes, cfg) ==
    LET byScore == classifyByScore(TotalScore(weightedScores), cfg)
    IN  IF hasHumanIndicators(changes, cfg) /\ hasAIIndicators(changes, cfg)
           /\ byScore.source # "human"
        THEN [ byScore EXCEPT !.source = "mixed",
                              !.confidence = RMin(byScore.confidence, R(8, 10)) ]
        ELSE byScore

(***************************************************************************)
(* Evidence and timeline extraction.                                       *)
(***************************************************************************)
Min(a, b) == IF a < b THEN a ELSE b

\* content.substring(0, limit) + '...' when longer, or the `[N chars]' placeholder
Preview(change, limit) ==
    IF change.content.present /\ change.content.length > 0
    THEN [ kind |-> "text", shown |-> Min(change.content.length, limit),
           ellipsis |-> change.content.length > limit ]
    ELSE [ kind |-> "placeholder", shown |-> change.contentLength, ellipsis |-> FALSE ]

BulkPreviewChars == 100
BurstPreviewChars == 50

RECURSIVE Flatten(_)
Flatten(ss) == IF ss = << >> THEN << >> ELSE ss[1] \o Flatten(Tail(ss))

extractContentCharacteristics(changes) ==
    (IF Some(changes, LAMBDA change : change.isCodeBlock)
        THEN << "contains-code-blocks" >> ELSE << >>)
    \o (IF Some(changes, LAMBDA change : change.isComment)
        THEN << "contains-comments" >> ELSE << >>)
    \o (IF Some(changes, LAMBDA change : change.languageConstruct = "function")
        THEN << "contains-functions" >> ELSE << >>)
    \o (IF Some(changes, LAMBDA change : change.languageConstruct = "class")
        THEN << "contains-classes" >> ELSE << >>)

identifySuspiciousPatterns(changes, cfg) ==
    (IF Some(changes, LAMBDA change :
            change.contentLength > cfg.thresholds.bulkInsertionSize
            /\ change.timeSinceLastChange < cfg.thresholds.pasteTimeThreshold)
        THEN << "rapid-large-insertion" >> ELSE << >>)
    \o (IF Some(changes, LAMBDA change :
            change.contentLength > cfg.thresholds.bulkInsertionSize
            /\ change.content.present /\ change.content.newline
            /\ change.indentationLevel > 0)
        THEN << "formatted-bulk-code" >> ELSE << >>)

extractEvidence(changes, cfg) ==
    LET bulk == Filter(changes, LAMBDA change :
            change.contentLength > cfg.thresholds.bulkInsertionSize)
        bulkChanges == [ i \in DOMAIN bulk |->
            [ size |-> bulk[i].contentLength, timespan |-> bulk[i].timeSinceLastChange,
              content |-> Preview(bulk[i], BulkPreviewChars) ] ]
        bursts == Filter(changes, LAMBDA change : change.burstDetected)
        typingBursts == [ i \in DOMAIN bursts |->
            [ speed |-> bursts[i].instantTypingSpeed,
              duration |-> bursts[i].timeSinceLastChange,
              content |-> Preview(bursts[i], BurstPreviewChars) ] ]
        external == Filter(changes, Detected)
    IN  [ externalToolSignature |-> Some(changes, Detected),
          bulkChangePattern |-> Len(bulkChanges) > 0,
          timingAnomalies |-> Some(changes, LAMBDA change :
              change.timeSinceLastChange > cfg.thresholds.longPauseThreshold
              \/ (change.timeSinceLastChange < cfg.thresholds.rapidSequenceThreshold
                  /\ change.timeSinceLastChange > 0)),
          contentCharacteristics |-> extractContentCharacteristics(changes),
          bulkChanges |-> bulkChanges,
          typingBursts |-> typingBursts,
          externalIndicators |->
              Flatten([ i \in DOMAIN external |->
                          external[i].externalToolSignature.indicators ]),
          suspiciousPatterns |-> identifySuspiciousPatterns(changes, cfg) ]

BulkInsertChars == 200
GapMs == 10000
ExtendedBreakMs == 300000

extractTimeline(changes) ==
    LET external == Filter(changes, Detected)
        externalEvents == [ i \in DOMAIN external |->
            [ timestamp |-> external[i].timestamp,
              changeType |-> IF external[i].contentLength > BulkInsertChars
                             THEN "bulk-insert" ELSE "structured-edit",
              contentLength |-> external[i].contentLength,
              detectedTool |-> external[i].externalToolSignature.toolType,
              confidence |-> external[i].externalToolSignature.confidence ] ]
        gapAt == [ i \in 1 .. Len(changes) |->
            IF i > 1 /\ changes[i].timestamp - changes[i - 1].timestamp > GapMs
            THEN << [ startTime |-> changes[i - 1].timestamp,
                      endTime |-> changes[i].timestamp,
                      duration |-> changes[i].timestamp - changes[i - 1].timestamp,
                      likelyActivity |->
                          IF changes[i].timestamp - changes[i - 1].timestamp > ExtendedBreakMs
                          THEN "extended-break" ELSE "thinking-pause" ] >>
            ELSE << >> ]
    IN  [ vsCodeEvents |-> changes, externalEvents |-> externalEvents,
          gaps |-> Flatten(gapAt) ]

\* variant: the empty list scored like any other (total 0: human, confidence 1 - 0)
createEmptyAttributionScored ==
    [ source |-> "human", confidence |-> One, aiProbability |-> Zero,
      evidence |->
        [ externalToolSignature |-> FALSE, bulkChangePattern |-> FALSE,
          timingAnomalies |-> FALSE, contentCharacteristics |-> << >>,
          bulkChanges |-> << >>, typingBursts |-> << >>,
          externalIndicators |-> << >>, suspiciousPatterns |-> << >> ],
      timeline |-> [ vsCodeEvents |-> << >>, externalEvents |-> << >>, gaps |-> << >> ] ]

createEmptyAttribution ==
    [ source |-> "human", confidence |-> Zero, aiProbability |-> Zero,
      evidence |->
        [ externalToolSignature |-> FALSE, bulkChangePattern |-> FALSE,
          timingAnomalies |-> FALSE, contentCharacteristics |-> << >>,
          bulkChanges |-> << >>, typingBursts |-> << >>,
          externalIndicators |-> << >>, suspiciousPatterns |-> << >> ],
      timeline |-> [ vsCodeEvents |-> << >>, externalEvents |-> << >>, gaps |-> << >> ] ]

\* analyze as one synchronous call under configuration cfg
analyze(changes, cfg) ==
    IF Len(changes) = 0 THEN createEmptyAttribution
    ELSE LET heuristicScores == calculateHeuristicScores(changes, cfg)
             weightedScores == combineScores(heuristicScores, cfg)
             finalResult == makeFinalDecision(weightedScores, changes, cfg)
         IN  [ source |-> finalResult.source,
               confidence |-> finalResult.confidence,
               aiProbability |-> finalResult.aiProbability,
               evidence |-> extractEvidence(changes, cfg),
               timeline |-> extractTimeline(changes) ]

(***************************************************************************)
(* State.                                                                  *)
(***************************************************************************)
VARIABLES
    config,          \* AIDetectionEngine.config
    pc,              \* where the analyze call stands ("idle": no call in progress)
    changes,         \* the argument of the current (or last) analyze call
    heuristicScores, \* analyze's locals, << >> while unset
    weightedScores,
    finalResult,
    decisionTrace,   \* the DecisionTraceStep list of the call
    returned,        \* << >>, or the attribution the last call returned
    callConfig,      \* the configuration current when the call began
    readConfigs,     \* the configurations the call's steps have read
    bpc,             \* where the bucket pipeline stands
    bEvents,         \* createBuckets' events argument
    bConfig,         \* createBuckets' config argument
    time,            \* createBuckets' loop variable
    buckets,         \* the TimeBucket list createBuckets builds
    analysed,        \* the TimeBucket list analyzeBuckets returned
    engineCalls,     \* the event lists analyzeBuckets handed to the engine, in order
    summary          \* << >>, or the BucketSummary of the analysed buckets

engineVars ==
    << config, pc, changes, heuristicScores, weightedScores, finalResult,
       decisionTrace, returned, callConfig, readConfigs >>

bucketVars == << bpc, bEvents, bConfig, time, buckets, analysed, engineCalls, summary >>

VARIABLES
    spc,             \* where AIDetectionService.analyze stands
    loggedMetrics,   \* the records handed to logger.logAIDetectionMetrics by the call
    supplied,        \* the partial configurations handed to updateConfig, in call order
    gotConfig        \* << >>, or what getConfig returned since the last updateConfig

serviceVars == << spc, loggedMetrics >>

configVars == << supplied, gotConfig >>

VARIABLES
    upc,             \* where handleFileUpload stands
    upFile,          \* << >>, or the File of the upload being handled
    inputValue,      \* fileInputRef.current.value: << >> for '', else << file name >>
    isLoading,       \* the store's isLoading
    localError,      \* localError: "" for null, else which message it shows
    uploadProgress,  \* uploadProgress
    dataset          \* << >>, or the dataset handed to loadDataset

uploadVars == << upc, upFile, inputValue, isLoading, localError, uploadProgress, dataset >>

VARIABLES
    candidate,       \* the value handed to a validator
    verdict          \* "none", or how the validator call ended: "true", "false", "TypeError"

validatorVars == << candidate, verdict >>

VARIABLES
    rpc,             \* where ReviewAnalyzer.assessQuality stands
    rChanges,        \* its changes argument
    commitInfo,      \* its commitInfo argument: << >> when omitted, else << commitTime >>
    assessment,      \* << >>, or the ReviewQualityAssessment it returned
    reviewLog        \* the records handed to logger.logReviewQualityMetrics, in order

reviewVars == << rpc, rChanges, commitInfo, assessment, reviewLog >>

VARIABLES
    tpc,             \* where ChangeTracker.onDocumentChange stands
    now,             \* Date.now()
    notification,    \* << >>, or the TextDocumentChangeEvent being handled
    pending,         \* the contentChanges of the notification not yet handled
    lastChangeTime,  \* ChangeTracker.lastChangeTime of the tracked file: << >> or << t >>
    fileOpenTimes,   \* ChangeTracker.fileOpenTimes of the tracked file: << >> or << t >>
    typingHistory,   \* ChangeTracker.typingHistory of the tracked file
    notified,        \* the number of notifications delivered so far
    changeLog        \* the records handed to logger.logChangeEvent, in order

trackerVars ==
    << tpc, now, notification, pending, lastChangeTime, fileOpenTimes, typingHistory,
       notified, changeLog >>

VARIABLES
    heap,            \* the section objects in memory: reference |-> value
    engines,         \* this.config of each engine: section |-> reference
    copy             \* << >>, or the object a getConfig call returned: section |-> reference

aliasVars == << heap, engines, copy >>

VARIABLES
    aiDetectionConfig,   \* the configuration in the application store
    engineConfig,        \* the configuration of the web application's engine
    debounceTimeout,     \* << >>, or the configuration the pending timer will apply
    panelCalls,          \* the handler calls made so far
    lastCall             \* << >>, or the last handler call: its name, key and value

panelVars == << aiDetectionConfig, engineConfig, debounceTimeout, panelCalls, lastCall >>

VARIABLES
    handlers,        \* the onDocumentChange calls suspended at an await, oldest first
    changeTimes      \* the timestamps of the tracked file's change notifications

asyncVars == << handlers, changeTimes >>

VARIABLES
    stpc,            \* "idle", "reading" (in the read loop) or "parsed"
    content,         \* the text of the file, a sequence of characters
    offset,          \* the characters of content read so far
    buffer,          \* parseJSONLFileStreaming's buffer
    streamEvents,    \* parseJSONLFileStreaming's events
    wholeEvents      \* << >>, or << the events parseJSONLFile returned for content >>

streamVars == << stpc, content, offset, buffer, streamEvents, wholeEvents >>

VARIABLES
    rotpc,           \* "idle", or "rotating" inside rotateLogsIfNeeded
    directory,       \* the archives in the log directory: [ file, timestamp ]
    created,         \* every archive ever created, oldest first
    clock,           \* Date.now()
    fileIndex        \* the position of rotateLogsIfNeeded's loop in logFiles

archiveVars == << rotpc, directory, created, clock, fileIndex >>

\* the state of the components specified further down
moreVars == << aliasVars, panelVars, asyncVars, streamVars, archiveVars >>

\* everything outside the engine and the bucket analyzer
restVars ==
    << serviceVars, configVars, uploadVars, validatorVars, reviewVars, trackerVars, moreVars >>

\* the groups a later component leaves alone
coreVars ==
    << engineVars, bucketVars, serviceVars, configVars, uploadVars, validatorVars, reviewVars,
       trackerVars >>

\* everything but one of the later components
notAlias == << coreVars, panelVars, asyncVars, streamVars, archiveVars >>
notPanel == << coreVars, aliasVars, asyncVars, streamVars, archiveVars >>
notAsync ==
    << engineVars, bucketVars, serviceVars, configVars, uploadVars, validatorVars, reviewVars,
       aliasVars, panelVars, streamVars, archiveVars >>
notStream == << coreVars, aliasVars, panelVars, asyncVars, archiveVars >>
notArchive == << coreVars, aliasVars, panelVars, asyncVars, streamVars >>

vars == << engineVars, bucketVars, restVars >>

(***************************************************************************)
(* Inputs of the engine specification.                                     *)
(***************************************************************************)
\* timestamp of the first event of a generated list
SessionStart == 1000

\* the capture layer's event list for a sequence of behaviours: each event's
\* timestamp follows the previous one by its timeSinceLastChange
RECURSIVE Captured(_)
Captured(ps) ==
    IF ps = << >> THEN << >>
    ELSE LET before == Captured(SubSeq(ps, 1, Len(ps) - 1))
             p == ps[Len(ps)]
             ts == IF before = << >> THEN SessionStart
                   ELSE before[Len(before)].timestamp + p.timeSinceLastChange
         IN  Append(before, At(p, ts))

SeqsUpTo(S, n) == UNION { [ 1 .. k -> S ] : k \in 0 .. n }

EventLists == { Captured(ps) : ps \in SeqsUpTo(Profiles, MaxEvents) }

\* weights that drift above a sum of 1 (they sum to 1.3)
DriftWeights ==
    [ bulkInsertionScore |-> R(30, 100), typingSpeedScore |-> R(25, 100),
      pastePatternScore |-> R(20, 100), externalToolScore |-> R(30, 100),
      contentPatternScore |-> R(15, 100), timingAnomalyScore |-> R(10, 100) ]

\* the weights of the engine's configuration test: they sum to 1, two are 0
TestWeights ==
    [ bulkInsertionScore |-> R(5, 10), typingSpeedScore |-> R(3, 10),
      pastePatternScore |-> R(1, 10), externalToolScore |-> R(1, 10),
      contentPatternScore |-> Zero, timingAnomalyScore |-> Zero ]

StrictThresholds ==
    [ bulkInsertionSize |-> 50, fastTypingSpeed |-> 100, pasteTimeThreshold |-> 200,
      longPauseThreshold |-> 10000, rapidSequenceThreshold |-> 200 ]

WideClassification ==
    [ humanThreshold |-> R(1, 10), aiAssistedThreshold |-> R(5, 10),
      aiGeneratedThreshold |-> R(95, 100) ]

\* the Partial<AIDetectionConfig> values handed to updateConfig
Partials ==
    { [ weights |-> w ] : w \in { DEFAULT_AI_DETECTION_CONFIG.weights, DriftWeights, TestWeights } }
    \cup { [ thresholds |-> t ] : t \in { DEFAULT_AI_DETECTION_CONFIG.thresholds, StrictThresholds } }
    \cup { [ classification |-> c ] :
             c \in { DEFAULT_AI_DETECTION_CONFIG.classification, WideClassification } }
    \cup { [ weights |-> DriftWeights, classification |-> WideClassification ] }

(***************************************************************************)
(* AIDetectionEngine: configuration and the analyze call.                  *)
(***************************************************************************)
\* variant: the sections newConfig does not name fall back to the defaults
updateConfigFromDefaults(cfg, newConfig) ==
    [ s \in Sections |->
        IF s \in DOMAIN newConfig THEN newConfig[s] ELSE DEFAULT_AI_DETECTION_CONFIG[s] ]

\* { ...this.config, ...newConfig }
updateConfig(cfg, newConfig) ==
    [ s \in Sections |-> IF s \in DOMAIN newConfig THEN newConfig[s] ELSE cfg[s] ]

\* variant: analyze yielding to the event loop between its steps
CallStackEmptyAwaited == TRUE

\* analyze is synchronous: no other callback runs until it has returned
CallStackEmpty == pc = "idle"

UpdateConfig(newConfig) ==
    /\ CallStackEmpty
    /\ config' = updateConfig(config, newConfig)
    /\ UNCHANGED << pc, changes, heuristicScores, weightedScores, finalResult,
                    decisionTrace, returned, callConfig, readConfigs >>
    /\ UNCHANGED << bucketVars, restVars >>

\* entry of analyze: the empty list returns at once
AnalyzeBegin(events) ==
    /\ pc = "idle"
    /\ changes' = events
    /\ callConfig' = config
    /\ readConfigs' = {}
    /\ heuristicScores' = << >>
    /\ weightedScores' = << >>
    /\ finalResult' = << >>
    /\ decisionTrace' = << >>
    /\ IF Len(events) = 0
       THEN pc' = "returned" /\ returned' = << createEmptyAttribution >>
       ELSE pc' = "heuristics" /\ returned' = << >>
    /\ UNCHANGED << config, bucketVars, restVars >>

AnalyzeHeuristics ==
    /\ pc = "heuristics"
    /\ heuristicScores' = << calculateHeuristicScores(changes, config) >>
    /\ decisionTrace' = heuristicTrace(changes, config)
    /\ readConfigs' = readConfigs \cup { config }
    /\ pc' = "combine"
    /\ UNCHANGED << config, changes, weightedScores, finalResult, returned, callConfig >>
    /\ UNCHANGED << bucketVars, restVars >>

AnalyzeCombine ==
    /\ pc = "combine"
    /\ weightedScores' = << combineScores(heuristicScores[1], config) >>
    /\ decisionTrace' = Append(decisionTrace,
           [ step |-> "score-combination",
             output |-> TotalScore(combineScores(heuristicScores[1], config)) ])
    /\ readConfigs' = readConfigs \cup { config }
    /\ pc' = "decide"
    /\ UNCHANGED << config, changes, heuristicScores, finalResult, returned, callConfig >>
    /\ UNCHANGED << bucketVars, restVars >>

AnalyzeDecide ==
    /\ pc = "decide"
    /\ finalResult' = << makeFinalDecision(weightedScores[1], changes, config) >>
    /\ decisionTrace' = Append(decisionTrace,
           [ step |-> "final-decision",
             output |-> makeFinalDecision(weightedScores[1], changes, config) ])
    /\ readConfigs' = readConfigs \cup { config }
    /\ pc' = "extract"
    /\ UNCHANGED << config, changes, heuristicScores, weightedScores, returned, callConfig >>
    /\ UNCHANGED << bucketVars, restVars >>

AnalyzeReturn ==
    /\ pc = "extract"
    /\ returned' = << [ source |-> finalResult[1].source,
                        confidence |-> finalResult[1].confidence,
                        aiProbability |-> finalResult[1].aiProbability,
                        evidence |-> extractEvidence(changes, config),
                        timeline |-> extractTimeline(changes) ] >>
    /\ readConfigs' = readConfigs \cup { config }
    /\ pc' = "returned"
    /\ UNCHANGED << config, changes, heuristicScores, weightedScores, finalResult,
                    decisionTrace, callConfig >>
    /\ UNCHANGED << bucketVars, restVars >>

\* the caller takes the returned attribution; the call's frame is gone
TakeResult ==
    /\ pc = "returned"
    /\ pc' = "idle"
    /\ changes' = << >>
    /\ heuristicScores' = << >>
    /\ weightedScores' = << >>
    /\ finalResult' = << >>
    /\ decisionTrace' = << >>
    /\ returned' = << >>
    /\ readConfigs' = {}
    /\ callConfig' = config
    /\ UNCHANGED << config, bucketVars, restVars >>

\* no analyze call in progress, none returned
EngineIdle ==
    /\ pc = "idle"
    /\ changes = << >>
    /\ heuristicScores = << >>
    /\ weightedScores = << >>
    /\ finalResult = << >>
    /\ decisionTrace = << >>
    /\ returned = << >>
    /\ callConfig = config
    /\ readConfigs = {}

\* no bucket pipeline started
BucketsIdle ==
    /\ bpc = "idle"
    /\ bEvents = << >>
    /\ bConfig = DEFAULT_BUCKET_CONFIG
    /\ time = 0
    /\ buckets = << >>
    /\ analysed = << >>
    /\ engineCalls = << >>
    /\ summary = << >>

\* no AIDetectionService.analyze call in progress
ServiceIdle ==
    /\ spc = "idle"
    /\ loggedMetrics = << >>

\* no updateConfig call made yet, no getConfig call answered
ConfigIdle ==
    /\ supplied = << >>
    /\ gotConfig = << >>

\* the DataImport component as mounted: nothing selected, nothing loaded
UploadIdle ==
    /\ upc = "idle"
    /\ upFile = << >>
    /\ inputValue = << >>
    /\ isLoading = FALSE
    /\ localError = ""
    /\ uploadProgress = 0
    /\ dataset = << >>

\* no validator called
ValidatorIdle ==
    /\ candidate = [ t |-> "undefined" ]
    /\ verdict = "none"

\* no assessQuality call made
ReviewIdle ==
    /\ rpc = "idle"
    /\ rChanges = << >>
    /\ commitInfo = << >>
    /\ assessment = << >>
    /\ reviewLog = << >>

\* new ChangeTracker(logger): no change seen yet
TrackerIdle ==
    /\ tpc = "idle"
    /\ now = SessionStart
    /\ notification = << >>
    /\ pending = << >>
    /\ lastChangeTime = << >>
    /\ fileOpenTimes = << >>
    /\ typingHistory = << >>
    /\ notified = 0
    /\ changeLog = << >>

\* the reference of section s of the object named owner
Ref(owner, s) == << owner, s >>

\* the exported DEFAULT_AI_DETECTION_CONFIG: its sections are objects of their own
DefaultObject == [ s \in Sections |-> Ref("default", s) ]

\* engine 1 is new AIDetectionEngine(); engine 2 is the engine of
\* new AIDetectionService(logger, sessionId, { weights }), whose configuration
\* { ...DEFAULT_AI_DETECTION_CONFIG, ...config } takes weights from the caller
AliasIdle ==
    /\ heap = [ r \in { Ref("default", s) : s \in Sections } \cup { Ref("caller", "weights") } |->
                  DEFAULT_AI_DETECTION_CONFIG[r[2]] ]
    /\ engines = << DefaultObject,
                    [ DefaultObject EXCEPT !["weights"] = Ref("caller", "weights") ] >>
    /\ copy = << >>

\* the panel before the first slider move: store and engine hold the default
PanelIdle ==
    /\ aiDetectionConfig = DEFAULT_AI_DETECTION_CONFIG
    /\ engineConfig = DEFAULT_AI_DETECTION_CONFIG
    /\ debounceTimeout = << >>
    /\ panelCalls = 0
    /\ lastCall = << >>

AsyncIdle ==
    /\ handlers = << >>
    /\ changeTimes = << >>

StreamIdle ==
    /\ stpc = "idle"
    /\ content = << >>
    /\ offset = 0
    /\ buffer = << >>
    /\ streamEvents = << >>
    /\ wholeEvents = << >>

\* an empty log directory
ArchiveIdle ==
    /\ rotpc = "idle"
    /\ directory = { }
    /\ created = << >>
    /\ clock = 0
    /\ fileIndex = 0

MoreIdle ==
    /\ AliasIdle
    /\ PanelIdle
    /\ AsyncIdle
    /\ StreamIdle
    /\ ArchiveIdle

RestIdle ==
    /\ ServiceIdle
    /\ ConfigIdle
    /\ UploadIdle
    /\ ValidatorIdle
    /\ ReviewIdle
    /\ TrackerIdle
    /\ MoreIdle

\* new AIDetectionEngine()
EngineInit ==
    /\ config = DEFAULT_AI_DETECTION_CONFIG
    /\ EngineIdle
    /\ BucketsIdle
    /\ RestIdle

EngineNext ==
    \/ \E newConfig \in Partials : UpdateConfig(newConfig)
    \/ /\ pc = "idle"
       /\ \E events \in EventLists : AnalyzeBegin(events)
    \/ AnalyzeHeuristics
    \/ AnalyzeCombine
    \/ AnalyzeDecide
    \/ AnalyzeReturn
    \/ TakeResult

SpecEngine == EngineInit /\ [][EngineNext]_vars

(***************************************************************************)
(* Claims about the engine, checked under SpecEngine.                      *)
(***************************************************************************)
\* a non-empty analyze call has returned
Analysed == pc = "returned" /\ Len(changes) > 0

\* C2: with weights that sum to more than 1, the confidence and the
\* aiProbability analyze returns still lie in [0,1], for every event list.
C2_DriftStaysInUnit ==
    (Analysed /\ RLt(One, WeightSum(callConfig.weights)))
        => (InUnit(returned[1].confidence) /\ InUnit(returned[1].aiProbability))

\* C3: every step of an analyze call reads the configuration that was current
\* when the call began, so the locals and the returned attribution are those of
\* that one configuration: no result mixes two configurations.
C3_OneConfigPerCall ==
    /\ readConfigs \subseteq { callConfig }
    /\ heuristicScores # << >> =>
           heuristicScores[1] = calculateHeuristicScores(changes, callConfig)
    /\ weightedScores # << >> =>
           weightedScores[1] = combineScores(heuristicScores[1], callConfig)
    /\ finalResult # << >> =>
           finalResult[1] = makeFinalDecision(weightedScores[1], changes, callConfig)
    /\ pc = "returned" => returned[1] = analyze(changes, callConfig)

\* C3 witness: a non-empty call made after a configuration update has returned.
C3_Witness ==
    /\ Analysed
    /\ callConfig # DEFAULT_AI_DETECTION_CONFIG
    /\ readConfigs = { callConfig }

\* the rule of the classification ladder the claim assigns to a total score
C5_Rule(total, c) ==
    CASE RLt(total, c.humanThreshold) -> 1
      [] RLe(c.humanThreshold, total) /\ RLt(total, c.aiAssistedThreshold) -> 2
      [] RLe(c.aiAssistedThreshold, total) /\ RLt(total, c.aiGeneratedThreshold) -> 3
      [] OTHER -> 4

C8_EmptyAttribution ==
    (pc = "returned" /\ changes = << >>) =>
        /\ returned[1].source = "human"
        /\ returned[1].confidence = Zero
        /\ returned[1].aiProbability = Zero
        /\ \A k \in { "contentCharacteristics", "bulkChanges", "typingBursts",
                      "externalIndicators", "suspiciousPatterns" } :
               returned[1].evidence[k] = << >>
        /\ \A k \in { "externalToolSignature", "bulkChangePattern", "timingAnomalies" } :
               returned[1].evidence[k] = FALSE
        /\ \A k \in { "vsCodeEvents", "externalEvents", "gaps" } :
               returned[1].timeline[k] = << >>

\* C8 witness: the empty list was analysed under a non-default configuration.
C8_Witness ==
    /\ pc = "returned"
    /\ changes = << >>
    /\ config # DEFAULT_AI_DETECTION_CONFIG
    /\ returned # << >>

(***************************************************************************)
(* BucketAnalyzer.                                                         *)
(***************************************************************************)
\* the bucket pushed by one iteration of createBuckets' loop
bucketAt(events, cfg, t) ==
    LET intervalMs == cfg.intervalMinutes * 60 * 1000
        bucketEvents == Filter(events, LAMBDA e :
            e.timestamp >= t /\ e.timestamp < t + intervalMs)
    IN  [ startTime |-> t,
          endTime |-> t + intervalMs,
          events |-> bucketEvents,
          eventCount |-> Len(bucketEvents),
          isEmpty |-> Len(bucketEvents) < cfg.minEventsPerBucket,
          aiProbability |-> << >>,
          heuristicScores |-> << >>,
          attribution |-> << >> ]

\* the hard-coded limits of extractHeuristicScores
BucketBulkChars == 100
BucketFastSpeed == 300
BucketPasteMs == 100
BucketPasteChars == 50
BucketLongPauseMs == 30000
BucketRapidMs == 100

extractHeuristicScores(attribution) ==
    LET events == attribution.timeline.vsCodeEvents
        n == Len(events)
        total == IF n > 1 THEN n ELSE 1
        bulkChanges == Filter(events, LAMBDA e : e.contentLength > BucketBulkChars)
        sampled == Filter(events, LAMBDA e : e.instantTypingSpeed > 0)
        typingSpeeds == [ i \in DOMAIN sampled |-> sampled[i].instantTypingSpeed ]
        avgSpeed == IF Len(typingSpeeds) > 0
                    THEN R(ISum(typingSpeeds), Len(typingSpeeds)) ELSE Zero
        pastePatterns == Filter(events, LAMBDA e :
            e.timeSinceLastChange < BucketPasteMs /\ e.contentLength > BucketPasteChars)
        externalEvents == Filter(events, Detected)
        externalToolScore ==
            IF Len(externalEvents) > 0
            THEN RMul(RSum([ i \in DOMAIN externalEvents |->
                               externalEvents[i].externalToolSignature.confidence ]),
                      R(1, Len(externalEvents)))
            ELSE Zero
        codeBlocks == Filter(events, LAMBDA e : e.isCodeBlock)
        comments == Filter(events, LAMBDA e : e.isComment)
        longPauses == Filter(events, LAMBDA e : e.timeSinceLastChange > BucketLongPauseMs)
        rapidSequences == Filter(events, LAMBDA e : e.timeSinceLastChange < BucketRapidMs)
    IN  IF n = 0
        THEN [ h \in HeuristicNames |-> Zero ]
        ELSE [ bulkInsertionScore |-> RMin(RMin(R(Len(bulkChanges), n), One), One),
               typingSpeedScore |->
                   RMin(RMin(RMul(avgSpeed, R(1, BucketFastSpeed)), One), One),
               pastePatternScore |-> RMin(RMin(R(Len(pastePatterns), total), One), One),
               externalToolScore |-> RMin(externalToolScore, One),
               contentPatternScore |->
                   RMin(RMul(RAdd(RMul(R(Len(codeBlocks), 1), R(6, 10)),
                                  RMul(R(Len(comments), 1), R(4, 10))),
                             R(1, total)), One),
               timingAnomalyScore |->
                   RMin(R(Len(longPauses) + Len(rapidSequences), total), One) ]

\* variant: the isEmpty test left out
analyzeBucketEvery(bucket, cfg) ==
    LET analysis == analyze(bucket.events, cfg)
    IN  [ bucket |-> [ bucket EXCEPT
              !.aiProbability = << analysis.aiProbability >>,
              !.heuristicScores = << extractHeuristicScores(analysis) >>,
              !.attribution = << analysis >> ],
          calls |-> << bucket.events >> ]

\* analyzeBucket with the engine's configuration cfg: the bucket it returns and
\* the event lists it handed to aiEngine.analyze
analyzeBucket(bucket, cfg) ==
    IF bucket.isEmpty
    THEN [ bucket |-> bucket, calls |-> << >> ]
    ELSE LET analysis == analyze(bucket.events, cfg)
         IN  [ bucket |-> [ bucket EXCEPT
                   !.aiProbability = << analysis.aiProbability >>,
                   !.heuristicScores = << extractHeuristicScores(analysis) >>,
                   !.attribution = << analysis >> ],
               calls |-> << bucket.events >> ]

analyzeBuckets(bs, cfg) ==
    [ buckets |-> [ i \in DOMAIN bs |-> analyzeBucket(bs[i], cfg).bucket ],
      calls |-> Flatten([ i \in DOMAIN bs |-> analyzeBucket(bs[i], cfg).calls ]) ]

\* Math.max(...ps) of a non-empty list
RECURSIVE RMax(_)
RMax(ps) ==
    IF Len(ps) = 1 THEN ps[1]
    ELSE LET m == RMax(Tail(ps)) IN IF RLt(ps[1], m) THEN m ELSE ps[1]

\* variant: the probabilities averaged over all buckets, an empty one counting 0
summarizeBucketsOverAll(bs) ==
    LET activeBuckets == Filter(bs, LAMBDA b : ~b.isEmpty)
        rated == Filter(activeBuckets, LAMBDA b : b.aiProbability # << >>)
        aiProbabilities == [ i \in DOMAIN rated |-> rated[i].aiProbability[1] ]
    IN  [ totalBuckets |-> Len(bs),
          activeBuckets |-> Len(activeBuckets),
          emptyBuckets |-> Len(bs) - Len(activeBuckets),
          averageAIProbability |->
              IF Len(bs) > 0 THEN RMul(RSum(aiProbabilities), R(1, Len(bs))) ELSE Zero,
          maxAIProbability |->
              IF Len(aiProbabilities) > 0 THEN RMax(aiProbabilities) ELSE Zero,
          timeSpanMs |->
              IF Len(bs) > 0 THEN bs[Len(bs)].endTime - bs[1].startTime ELSE 0 ]

summarizeBuckets(bs) ==
    LET activeBuckets == Filter(bs, LAMBDA b : ~b.isEmpty)
        rated == Filter(activeBuckets, LAMBDA b : b.aiProbability # << >>)
        aiProbabilities == [ i \in DOMAIN rated |-> rated[i].aiProbability[1] ]
    IN  [ totalBuckets |-> Len(bs),
          activeBuckets |-> Len(activeBuckets),
          emptyBuckets |-> Len(bs) - Len(activeBuckets),
          averageAIProbability |->
              IF Len(aiProbabilities) > 0
              THEN RMul(RSum(aiProbabilities), R(1, Len(aiProbabilities))) ELSE Zero,
          maxAIProbability |->
              IF Len(aiProbabilities) > 0 THEN RMax(aiProbabilities) ELSE Zero,
          timeSpanMs |->
              IF Len(bs) > 0 THEN bs[Len(bs)].endTime - bs[1].startTime ELSE 0 ]

(***************************************************************************)
(* The bucket pipeline: createBuckets' loop, one iteration a step, then    *)
(* analyzeBuckets and summarizeBuckets on its result.                      *)
(***************************************************************************)
CreateBucketsBegin(events, cfg) ==
    /\ bpc = "idle"
    /\ bEvents' = events
    /\ bConfig' = cfg
    /\ buckets' = << >>
    /\ analysed' = << >>
    /\ engineCalls' = << >>
    /\ summary' = << >>
    /\ IF Len(events) = 0
       THEN bpc' = "created" /\ time' = 0
       ELSE bpc' = "loop" /\ time' = events[1].timestamp
    /\ UNCHANGED << engineVars, restVars >>

CreateBucketsIterate ==
    /\ bpc = "loop"
    /\ time < bEvents[Len(bEvents)].timestamp
    /\ Len(buckets) < MaxBuckets
    /\ buckets' = Append(buckets, bucketAt(bEvents, bConfig, time))
    /\ time' = time + bConfig.intervalMinutes * 60 * 1000
    /\ UNCHANGED << bpc, bEvents, bConfig, analysed, engineCalls, summary, engineVars, restVars >>

CreateBucketsReturn ==
    /\ bpc = "loop"
    /\ ~(time < bEvents[Len(bEvents)].timestamp)
    /\ bpc' = "created"
    /\ UNCHANGED << bEvents, bConfig, time, buckets, analysed, engineCalls, summary,
                    engineVars, restVars >>

AnalyzeBuckets ==
    /\ bpc = "created"
    /\ analysed' = analyzeBuckets(buckets, config).buckets
    /\ engineCalls' = analyzeBuckets(buckets, config).calls
    /\ bpc' = "analysed"
    /\ UNCHANGED << bEvents, bConfig, time, buckets, summary, engineVars, restVars >>

SummarizeBuckets ==
    /\ bpc = "analysed"
    /\ summary' = << summarizeBuckets(analysed) >>
    /\ bpc' = "summarised"
    /\ UNCHANGED << bEvents, bConfig, time, buckets, analysed, engineCalls, engineVars, restVars >>

\* the caller drops the buckets: they are built afresh for every analysis
ReleaseBuckets ==
    /\ bpc = "summarised"
    /\ bpc' = "idle"
    /\ bEvents' = << >>
    /\ bConfig' = DEFAULT_BUCKET_CONFIG
    /\ time' = 0
    /\ buckets' = << >>
    /\ analysed' = << >>
    /\ engineCalls' = << >>
    /\ summary' = << >>
    /\ UNCHANGED << engineVars, restVars >>

(***************************************************************************)
(* Inputs of the bucket specification.                                     *)
(***************************************************************************)
BucketProfiles == { HumanTyping, AIBurst }

\* milliseconds between consecutive events of a generated list
Gaps == { 0, 60000, 150000 }

\* the behaviours ps at increasing times: event i follows event i-1 by gs[i]
RECURSIVE Spaced(_, _)
Spaced(ps, gs) ==
    IF ps = << >> THEN << >>
    ELSE LET before == Spaced(SubSeq(ps, 1, Len(ps) - 1), gs)
             ts == IF before = << >> THEN SessionStart
                   ELSE before[Len(before)].timestamp + gs[Len(ps)]
         IN  Append(before, At(ps[Len(ps)], ts))

BucketEventLists ==
    UNION { { Spaced(ps, gs) : ps \in [ 1 .. k -> BucketProfiles ], gs \in [ 2 .. k -> Gaps ] }
            : k \in 0 .. MaxBucketEvents }

BucketConfigs ==
    { [ intervalMinutes |-> m, aggregationMethod |-> "average", minEventsPerBucket |-> e ]
        : m \in { 1, 2 }, e \in { 0, 1, 2 } }

\* new AIDetectionEngine(config) for the configurations the pipeline is run with
BucketsInit ==
    /\ config \in { DEFAULT_AI_DETECTION_CONFIG,
                    updateConfig(DEFAULT_AI_DETECTION_CONFIG, [ weights |-> TestWeights ]) }
    /\ EngineIdle
    /\ BucketsIdle
    /\ RestIdle

BucketsNext ==
    \/ /\ bpc = "idle"
       /\ \E events \in BucketEventLists, cfg \in BucketConfigs :
              CreateBucketsBegin(events, cfg)
    \/ CreateBucketsIterate
    \/ CreateBucketsReturn
    \/ AnalyzeBuckets
    \/ SummarizeBuckets
    \/ ReleaseBuckets

SpecBuckets == BucketsInit /\ [][BucketsNext]_vars

(***************************************************************************)
(* Claims about the bucket analyzer, checked under SpecBuckets.            *)
(***************************************************************************)
BucketsCreated == bpc \in { "created", "analysed", "summarised" }
BucketsAnalysed == bpc \in { "analysed", "summarised" }

\* how often event e occurs in the events of the buckets bs
InBuckets(bs, e) ==
    Cardinality({ jk \in UNION { { << j, k >> : k \in DOMAIN bs[j].events } : j \in DOMAIN bs } :
                    bs[jk[1]].events[jk[2]] = e })

InList(es, e) == Cardinality({ i \in DOMAIN es : es[i] = e })

\* C1: for a non-empty list ordered by timestamp and a positive interval, every
\* input event lies in the events of exactly one bucket, one whose range
\* [startTime, endTime) holds its timestamp: none is dropped, none counted twice,
\* and the last event is captured.
C1_EveryEventInOneBucket ==
    (BucketsCreated /\ Len(bEvents) > 0) =>
        /\ \A j \in DOMAIN buckets : \A k \in DOMAIN buckets[j].events :
               /\ buckets[j].startTime <= buckets[j].events[k].timestamp
               /\ buckets[j].events[k].timestamp < buckets[j].endTime
        /\ \A i \in DOMAIN bEvents :
               InBuckets(buckets, bEvents[i]) = InList(bEvents, bEvents[i])

NonNegative(w) == \A h \in HeuristicNames : RLe(Zero, w[h])

\* C4: under a configuration whose six weights are non-negative and sum to 1, the
\* confidence and aiProbability of every analysis, and each of the six heuristic
\* scores attached to an analysed bucket, lie in [0,1].
C4_ScoresInUnit ==
    (BucketsAnalysed /\ NonNegative(config.weights) /\ WeightSum(config.weights) = One) =>
        \A j \in DOMAIN analysed :
            analysed[j].attribution # << >> =>
                /\ InUnit(analysed[j].attribution[1].confidence)
                /\ InUnit(analysed[j].attribution[1].aiProbability)
                /\ InUnit(analysed[j].aiProbability[1])
                /\ \A h \in HeuristicNames : InUnit(analysed[j].heuristicScores[1][h])

\* C4 witness: a bucket was analysed to the top of the range (aiProbability 1 and
\* a typing-speed score of 1) next to a bucket analysed as human.
C4_Witness ==
    /\ BucketsAnalysed
    /\ \E j \in DOMAIN analysed :
           /\ analysed[j].attribution # << >>
           /\ analysed[j].aiProbability[1] = One
           /\ analysed[j].heuristicScores[1].typingSpeedScore = One
    /\ \E j \in DOMAIN analysed :
           /\ analysed[j].attribution # << >>
           /\ analysed[j].attribution[1].source = "human"
           /\ analysed[j].eventCount > 0

\* C7: analyzeBuckets returns every input bucket in order; a bucket with fewer
\* events than minEventsPerBucket is never handed to the engine and keeps
\* aiProbability, heuristicScores and attribution null; every other bucket is
\* analysed on exactly its own events.
C7_EmptyBucketsSkipped ==
    BucketsAnalysed =>
        /\ Len(analysed) = Len(buckets)
        /\ \A j \in DOMAIN buckets :
               /\ \A f \in { "startTime", "endTime", "events", "eventCount", "isEmpty" } :
                      analysed[j][f] = buckets[j][f]
               /\ IF buckets[j].eventCount < bConfig.minEventsPerBucket
                  THEN /\ analysed[j].aiProbability = << >>
                       /\ analysed[j].heuristicScores = << >>
                       /\ analysed[j].attribution = << >>
                  ELSE /\ analysed[j].attribution = << analyze(buckets[j].events, config) >>
                       /\ analysed[j].aiProbability =
                              << analyze(buckets[j].events, config).aiProbability >>
                       /\ analysed[j].heuristicScores # << >>
        /\ \A c \in DOMAIN engineCalls : Len(engineCalls[c]) >= bConfig.minEventsPerBucket
        /\ engineCalls =
               Flatten([ j \in DOMAIN buckets |->
                           IF buckets[j].eventCount < bConfig.minEventsPerBucket
                           THEN << >> ELSE << buckets[j].events >> ])

\* C7 witness: the analysed list holds a skipped bucket that has an event, a
\* skipped bucket with none, and an analysed bucket.
C7_Witness ==
    /\ BucketsAnalysed
    /\ \E j \in DOMAIN analysed : analysed[j].eventCount = 1 /\ analysed[j].attribution = << >>
    /\ \E j \in DOMAIN analysed : analysed[j].eventCount = 0 /\ analysed[j].attribution = << >>
    /\ \E j \in DOMAIN analysed : analysed[j].attribution # << >>

(***************************************************************************)
(* Re-running the combination while single weights are raised:             *)
(* updateConfig({ weights }) followed by combineScores on the raw scores   *)
(* of the same events (the scorers read the thresholds only, which stay).  *)
(***************************************************************************)
\* the amount one weight is raised by: a quarter
WeightStep == R(1, 4)

RaiseWeight(heuristic) ==
    /\ CallStackEmpty
    /\ RLe(RAdd(config.weights[heuristic], WeightStep), One)
    /\ RLe(RAdd(WeightSum(config.weights), WeightStep),
           RAdd(WeightSum(DEFAULT_AI_DETECTION_CONFIG.weights), R(MaxRaises, 4)))
    /\ config' = updateConfig(config,
           [ weights |-> [ config.weights EXCEPT ![heuristic] = RAdd(@, WeightStep) ] ])
    /\ weightedScores' = << combineScores(heuristicScores[1], config') >>
    /\ callConfig' = config'
    /\ UNCHANGED << pc, changes, heuristicScores, finalResult, decisionTrace, returned,
                    readConfigs >>
    /\ UNCHANGED << bucketVars, restVars >>

WeightsInit ==
    /\ config = DEFAULT_AI_DETECTION_CONFIG
    /\ pc = "idle"
    /\ changes \in { es \in EventLists : Len(es) > 0 }
    /\ heuristicScores = << calculateHeuristicScores(changes, config) >>
    /\ weightedScores = << combineScores(heuristicScores[1], config) >>
    /\ finalResult = << >>
    /\ decisionTrace = << >>
    /\ returned = << >>
    /\ callConfig = config
    /\ readConfigs = {}
    /\ BucketsIdle
    /\ RestIdle

WeightsNext == \E heuristic \in HeuristicNames : RaiseWeight(heuristic)

SpecWeights == WeightsInit /\ [][WeightsNext]_vars

\* C10: with the raw heuristic scores fixed, raising any single weight while the
\* other five stay as they are never lowers the total weighted score.
C10_TotalMonotoneInWeight ==
    [][ RLe(TotalScore(weightedScores[1]), TotalScore(weightedScores'[1])) ]_vars

\* C10 witness: a weight has been raised and the total has risen with it.
C10_Witness ==
    /\ config.weights # DEFAULT_AI_DETECTION_CONFIG.weights
    /\ weightedScores # << >>
    /\ RLt(TotalScore(combineScores(heuristicScores[1], DEFAULT_AI_DETECTION_CONFIG)),
           TotalScore(weightedScores[1]))

(***************************************************************************)
(* AIDetectionService (extension): analyze wraps the engine's analyze and  *)
(* hands one metrics record to the logger.  The record's analysisId,       *)
(* timestamp and session id (a uuid, the clock, a constant) are left out.  *)
(***************************************************************************)
\* the DecisionTraceStep list the engine builds during one analyze call
engineTrace(events, cfg) ==
    LET weighted == combineScores(calculateHeuristicScores(events, cfg), cfg)
    IN  heuristicTrace(events, cfg)
        \o << [ step |-> "score-combination", output |-> TotalScore(weighted) ],
              [ step |-> "final-decision",
                output |-> makeFinalDecision(weighted, events, cfg) ] >>

calculateTimeSpan(events) ==
    IF Len(events) < 2 THEN 0 ELSE events[Len(events)].timestamp - events[1].timestamp

createPlaceholderHeuristicScores == [ h \in HeuristicNames |-> Zero ]

\* {}: no weighted score at all
createPlaceholderWeightedScores == << >>

\* the object literal handed to logAnalysisMetrics
metricsRecord(events, result) ==
    [ totalChanges |-> Len(events),
      timeSpanMs |-> calculateTimeSpan(events),
      contentLengthTotal |-> ISum([ i \in DOMAIN events |-> events[i].contentLength ]),
      heuristicScores |-> createPlaceholderHeuristicScores,
      weightedScores |-> createPlaceholderWeightedScores,
      finalConfidence |-> result.confidence,
      aiProbability |-> result.aiProbability,
      classification |-> result.source,
      evidence |-> result.evidence,
      decisionTrace |-> << >> ]

\* AIDetectionService.analyze up to its await: the engine call is synchronous and
\* the record is built from its result before the logger is awaited.  `returned'
\* holds the result the pending promise will resolve to; `decisionTrace' is the
\* trace the engine built (a local of the engine's analyze).
ServiceAnalyze(events) ==
    /\ spc = "idle"
    /\ changes' = events
    /\ returned' = << analyze(events, config) >>
    /\ IF Len(events) = 0
       THEN /\ decisionTrace' = << >>
            /\ loggedMetrics' = << >>
            /\ spc' = "returned"
       ELSE /\ decisionTrace' = engineTrace(events, config)
            /\ loggedMetrics' = << metricsRecord(events, analyze(events, config)) >>
            /\ spc' = "logging"
    /\ callConfig' = config
    /\ UNCHANGED << config, pc, heuristicScores, weightedScores, finalResult, readConfigs >>
    /\ UNCHANGED << bucketVars, moreVars, configVars, uploadVars, validatorVars, reviewVars,
                    trackerVars >>

\* logger.logAIDetectionMetrics has settled: the promise resolves
ServiceLogged ==
    /\ spc = "logging"
    /\ spc' = "returned"
    /\ UNCHANGED << engineVars, loggedMetrics >>
    /\ UNCHANGED << bucketVars, moreVars, configVars, uploadVars, validatorVars, reviewVars,
                    trackerVars >>

\* the caller takes the attribution
ServiceTake ==
    /\ spc = "returned"
    /\ spc' = "idle"
    /\ changes' = << >>
    /\ returned' = << >>
    /\ decisionTrace' = << >>
    /\ loggedMetrics' = << >>
    /\ callConfig' = config
    /\ UNCHANGED << config, pc, heuristicScores, weightedScores, finalResult, readConfigs >>
    /\ UNCHANGED << bucketVars, moreVars, configVars, uploadVars, validatorVars, reviewVars,
                    trackerVars >>

\* AIDetectionService.updateConfig: this.engine.updateConfig(config)
ServiceUpdateConfig(newConfig) ==
    /\ config' = updateConfig(config, newConfig)
    /\ callConfig' = IF spc = "idle" THEN config' ELSE callConfig
    /\ UNCHANGED << pc, changes, heuristicScores, weightedScores, finalResult,
                    decisionTrace, returned, readConfigs >>
    /\ UNCHANGED << bucketVars, restVars >>

\* new AIDetectionService(logger, sessionId)
ServiceInit == EngineInit

ServiceNext ==
    \/ /\ spc = "idle"
       /\ \E events \in EventLists : ServiceAnalyze(events)
    \/ ServiceLogged
    \/ ServiceTake
    \/ \E newConfig \in Partials : ServiceUpdateConfig(newConfig)

SpecService == ServiceInit /\ [][ServiceNext]_vars

StepsOf(trace) == { trace[i].step : i \in DOMAIN trace }

\* C11: for every non-empty event list, the metrics record the service hands to
\* the logger carries a non-empty decisionTrace holding the steps
\* bulk-insertion-analysis, typing-speed-analysis and final-decision of the analysis.
C11_TraceLogged ==
    (spc \in { "logging", "returned" } /\ Len(changes) > 0) =>
        /\ Len(loggedMetrics) = 1
        /\ loggedMetrics[1].decisionTrace # << >>
        /\ { "bulk-insertion-analysis", "typing-speed-analysis", "final-decision" }
               \subseteq StepsOf(loggedMetrics[1].decisionTrace)

(***************************************************************************)
(* DataImport (web app): handleFileUpload.  A File is its name, its size,  *)
(* whether reading it succeeds, and its lines, each line kept as the kind  *)
(* of thing JSON.parse and the shape tests make of it.                     *)
(***************************************************************************)
MAX_FILE_SIZE == 50 * 1024 * 1024

\* files above this size are parsed with parseJSONLFileStreaming
StreamingSize == 1024 * 1024

\* "event": a change event; "metric": a review metric with one editTimeline entry;
\* "emptyMetric": one with an empty editTimeline; "other": any other JSON value;
\* "garbage": not JSON; "blank": an empty line
LineKinds == { "event", "metric", "emptyMetric", "other", "garbage", "blank" }

\* the events one line contributes: JSON.parse, then the two shape tests
eventsOfLine(line) ==
    CASE line = "event" -> << "change-event" >>
      [] line = "metric" -> << "timeline-event" >>
      [] OTHER -> << >>

parseJSONLFile(lines) == Flatten([ i \in DOMAIN lines |-> eventsOfLine(lines[i]) ])

\* the streaming parser skips blank lines before JSON.parse and handles the
\* unterminated rest of the buffer like a line
parseJSONLFileStreaming(lines) ==
    parseJSONLFile(Filter(lines, LAMBDA line : line # "blank"))

Files ==
    [ name : [ base : { "a", "b" }, extension : { "jsonl", "txt" } ],
      size : { 1000, StreamingSize, StreamingSize + 1, MAX_FILE_SIZE, MAX_FILE_SIZE + 1 },
      readable : BOOLEAN,
      lines : SeqsUpTo(LineKinds, MaxLines) ]

\* the user picks file in the dialog of the file input; the input's change event
\* fires only when that changes its value, and the input is disabled while
\* loading.  Then handleFileUpload runs to its first await, or to its end.
SelectFile(file) ==
    /\ upc = "idle"
    /\ ~isLoading
    /\ inputValue # << file.name >>
    /\ upFile' = << file >>
    /\ dataset' = dataset
    /\ IF file.size > MAX_FILE_SIZE
       THEN /\ localError' = "file-too-large"
            /\ inputValue' = << >>
            /\ UNCHANGED << isLoading, uploadProgress >>
            /\ upc' = "done"
       ELSE IF file.name.extension = "jsonl"
       THEN /\ isLoading' = TRUE
            /\ uploadProgress' = 0
            /\ inputValue' = << file.name >>
            /\ IF file.size > StreamingSize
               THEN localError' = "processing-large-file" /\ upc' = "streaming"
               ELSE localError' = "" /\ upc' = "reading"
       ELSE /\ localError' = "not-a-jsonl-file"
            /\ isLoading' = FALSE
            /\ uploadProgress' = 0
            /\ inputValue' = << >>
            /\ upc' = "done"
    /\ UNCHANGED << engineVars, bucketVars, moreVars, serviceVars, configVars, validatorVars,
                    reviewVars, trackerVars >>

\* the streaming parser reports progress
StreamProgress ==
    /\ upc = "streaming"
    /\ uploadProgress = 0
    /\ uploadProgress' = 100
    /\ UNCHANGED << upc, upFile, inputValue, isLoading, localError, dataset >>
    /\ UNCHANGED << engineVars, bucketVars, moreVars, serviceVars, configVars, validatorVars,
                    reviewVars, trackerVars >>

\* the awaited read and parse settle; the rest of handleFileUpload runs:
\* the try block, catch, finally, and the statements after them unless the
\* try block returned
UploadResume ==
    /\ upc \in { "reading", "streaming" }
    /\ LET file == upFile[1]
           events == IF upc = "streaming" THEN parseJSONLFileStreaming(file.lines)
                     ELSE parseJSONLFile(file.lines)
       IN  IF ~file.readable
           THEN /\ localError' = "failed-to-parse"
                /\ inputValue' = << >>
                /\ dataset' = dataset
           ELSE IF Len(events) = 0
           THEN /\ localError' = "no-valid-events"
                /\ inputValue' = inputValue
                /\ dataset' = dataset
           ELSE /\ dataset' = << [ events |-> events, name |-> file.name ] >>
                /\ localError' = ""
                /\ inputValue' = << >>
    /\ isLoading' = FALSE
    /\ uploadProgress' = 0
    /\ upc' = "done"
    /\ UNCHANGED upFile
    /\ UNCHANGED << engineVars, bucketVars, moreVars, serviceVars, configVars, validatorVars,
                    reviewVars, trackerVars >>

\* the handler has returned
UploadOver ==
    /\ upc = "done"
    /\ upc' = "idle"
    /\ upFile' = << >>
    /\ UNCHANGED << inputValue, isLoading, localError, uploadProgress, dataset >>
    /\ UNCHANGED << engineVars, bucketVars, moreVars, serviceVars, configVars, validatorVars,
                    reviewVars, trackerVars >>

UploadInit ==
    /\ config = DEFAULT_AI_DETECTION_CONFIG
    /\ EngineIdle
    /\ BucketsIdle
    /\ RestIdle

UploadNext ==
    \/ /\ upc = "idle"
       /\ \E file \in Files : SelectFile(file)
    \/ StreamProgress
    \/ UploadResume
    \/ UploadOver

SpecUpload == UploadInit /\ [][UploadNext]_vars

\* C12: after every upload attempt handled by handleFileUpload, whatever its
\* outcome, the file input has been reset (its value is empty), so that the same
\* file or another one can be selected again.
C12_InputResetAfterAttempt == upc = "done" => inputValue = << >>

(***************************************************************************)
(* JavaScript values as the validators see them (their argument is `any'). *)
(* A number is NaN or an exact ratio; an object is its own properties.     *)
(***************************************************************************)
Undefined == [ t |-> "undefined" ]
Null == [ t |-> "null" ]
NaN == [ t |-> "number", nan |-> TRUE, v |-> Zero ]
Num(r) == [ t |-> "number", nan |-> FALSE, v |-> r ]
Str(s) == [ t |-> "string", s |-> s ]
Bool(b) == [ t |-> "boolean", b |-> b ]
Obj(f) == [ t |-> "object", f |-> f ]

\* the typeof operator
typeof(x) == IF x.t = "null" THEN "object" ELSE x.t

\* o[k] on a non-null object: a missing property reads as undefined
Get(o, k) == IF k \in DOMAIN o.f THEN o.f[k] ELSE Undefined

\* x < r, x > r, x >= y on numbers: every comparison with NaN is false
JsLt(x, r) == ~x.nan /\ RLt(x.v, r)
JsGt(x, r) == ~x.nan /\ RLt(r, x.v)
JsGe(x, y) == ~x.nan /\ ~y.nan /\ RLe(y.v, x.v)

\* the object with property k set to value x
With(o, k, x) == Obj([ j \in DOMAIN o.f \cup { k } |-> IF j = k THEN x ELSE o.f[j] ])

\* the object without property k
Without(o, k) == Obj([ j \in DOMAIN o.f \ { k } |-> o.f[j] ])

\* a record of ratios as an object of numbers
NumObj(rec) == Obj([ k \in DOMAIN rec |-> Num(rec[k]) ])

\* a record of integers as an object of numbers
IntObj(rec) == Obj([ k \in DOMAIN rec |-> Num(R(rec[k], 1)) ])

(***************************************************************************)
(* validateAIDetectionConfig.                                              *)
(***************************************************************************)
requiredWeights == HeuristicNames

requiredThresholds ==
    { "bulkInsertionSize", "fastTypingSpeed", "pasteTimeThreshold",
      "longPauseThreshold", "rapidSequenceThreshold" }

requiredClassification == { "humanThreshold", "aiAssistedThreshold", "aiGeneratedThreshold" }

IsObject(x) == typeof(x) = "object" /\ x.t # "null"

validateAIDetectionConfig(cfg) ==
    IF ~IsObject(cfg) THEN "false"
    ELSE LET weights == Get(cfg, "weights")
             thresholds == Get(cfg, "thresholds")
             classification == Get(cfg, "classification")
         IN  IF ~IsObject(weights) THEN "false"
             ELSE IF \E w \in requiredWeights :
                        \/ typeof(Get(weights, w)) # "number"
                        \/ JsLt(Get(weights, w), Zero)
                        \/ JsGt(Get(weights, w), One)
             THEN "false"
             ELSE IF ~IsObject(thresholds) THEN "false"
             ELSE IF \E th \in requiredThresholds :
                        \/ typeof(Get(thresholds, th)) # "number"
                        \/ JsLt(Get(thresholds, th), Zero)
             THEN "false"
             ELSE IF ~IsObject(classification) THEN "false"
             ELSE IF \E c \in requiredClassification :
                        \/ typeof(Get(classification, c)) # "number"
                        \/ JsLt(Get(classification, c), Zero)
                        \/ JsGt(Get(classification, c), One)
             THEN "false"
             ELSE IF \/ JsGe(Get(classification, "humanThreshold"),
                             Get(classification, "aiAssistedThreshold"))
                     \/ JsGe(Get(classification, "aiAssistedThreshold"),
                             Get(classification, "aiGeneratedThreshold"))
             THEN "false"
             ELSE "true"

\* an AIDetectionConfig of the engine as the object handed to the validator
ConfigObject(cfg) ==
    Obj([ section \in Sections |->
            CASE section = "weights" -> NumObj(cfg.weights)
              [] section = "thresholds" -> IntObj(cfg.thresholds)
              [] section = "classification" -> NumObj(cfg.classification)
              [] OTHER -> Obj([ intervalMinutes |-> Num(R(cfg.bucketConfig.intervalMinutes, 1)),
                               aggregationMethod |-> Str(cfg.bucketConfig.aggregationMethod),
                               minEventsPerBucket |->
                                   Num(R(cfg.bucketConfig.minEventsPerBucket, 1)) ]) ])

\* configurations the validator accepts, to be altered in one place
BaseConfigs ==
    { ConfigObject(updateConfig(DEFAULT_AI_DETECTION_CONFIG, p)) :
        p \in { [ weights |-> DEFAULT_AI_DETECTION_CONFIG.weights ],
                [ weights |-> TestWeights ],
                [ classification |-> WideClassification ],
                [ thresholds |-> StrictThresholds ] } }

\* values put in the place of a weight, a threshold or a cutoff
OddValues ==
    { Num(R(-1, 10)), Num(Zero), Num(R(1, 2)), Num(One), Num(R(11, 10)), Num(R(-5, 1)),
      Num(R(500, 1)), NaN, Undefined, Null, Str("0.5"), Bool(TRUE) }

SectionKeys(section) ==
    CASE section = "weights" -> requiredWeights
      [] section = "thresholds" -> requiredThresholds
      [] OTHER -> requiredClassification

\* every base configuration, every base with one number replaced, with one section
\* replaced or missing, with the cutoffs in another order, and some non-objects
ConfigCandidates ==
    BaseConfigs
    \cup UNION { { With(base, section, With(Get(base, section), k, x)) :
                     base \in BaseConfigs, k \in SectionKeys(section), x \in OddValues } :
                   section \in { "weights", "thresholds", "classification" } }
    \cup { With(base, section, x) :
             base \in BaseConfigs, section \in Sections, x \in { Null, Undefined, Num(One) } }
    \cup { Without(base, section) : base \in BaseConfigs, section \in Sections }
    \cup { With(base, "classification",
                NumObj([ humanThreshold |-> h, aiAssistedThreshold |-> a,
                         aiGeneratedThreshold |-> g ])) :
             base \in BaseConfigs,
             h \in { R(3, 10), R(6, 10) }, a \in { R(3, 10), R(6, 10) },
             g \in { R(6, 10), R(8, 10) } }
    \cup { Null, Undefined, Num(One), Str("config"), Obj(<< >>) }

ValidateConfig(cfg) ==
    /\ verdict = "none"
    /\ candidate' = cfg
    /\ verdict' = validateAIDetectionConfig(cfg)
    /\ UNCHANGED << engineVars, bucketVars, moreVars, serviceVars, configVars, uploadVars,
                    reviewVars, trackerVars >>

\* the caller has the answer
ValidatorReturn ==
    /\ verdict # "none"
    /\ candidate' = Undefined
    /\ verdict' = "none"
    /\ UNCHANGED << engineVars, bucketVars, moreVars, serviceVars, configVars, uploadVars,
                    reviewVars, trackerVars >>

ValidatorInit ==
    /\ config = DEFAULT_AI_DETECTION_CONFIG
    /\ EngineIdle
    /\ BucketsIdle
    /\ RestIdle

ConfigValidatorNext ==
    \/ /\ verdict = "none"
       /\ \E cfg \in ConfigCandidates : ValidateConfig(cfg)
    \/ ValidatorReturn

SpecConfigValidator == ValidatorInit /\ [][ConfigValidatorNext]_vars

\* x is a number within [0,1]
In01(x) == x.t = "number" /\ ~x.nan /\ RLe(Zero, x.v) /\ RLe(x.v, One)

\* x is a number below y
Below(x, y) == x.t = "number" /\ y.t = "number" /\ ~x.nan /\ ~y.nan /\ RLt(x.v, y.v)

\* cfg has its three sections and breaks one of the rules: a weight outside [0,1],
\* a negative threshold, a cutoff outside [0,1], cutoffs not strictly increasing
BreaksRule(cfg) ==
    /\ IsObject(cfg)
    /\ \A section \in { "weights", "thresholds", "classification" } :
           IsObject(Get(cfg, section))
    /\ \/ \E w \in requiredWeights : ~In01(Get(Get(cfg, "weights"), w))
       \/ \E th \in requiredThresholds :
              LET x == Get(Get(cfg, "thresholds"), th)
              IN  x.t = "number" /\ ~x.nan /\ RLt(x.v, Zero)
       \/ \E c \in requiredClassification : ~In01(Get(Get(cfg, "classification"), c))
       \/ ~Below(Get(Get(cfg, "classification"), "humanThreshold"),
                 Get(Get(cfg, "classification"), "aiAssistedThreshold"))
       \/ ~Below(Get(Get(cfg, "classification"), "aiAssistedThreshold"),
                 Get(Get(cfg, "classification"), "aiGeneratedThreshold"))

\* C13: validateAIDetectionConfig returns false for every configuration that
\* breaks a validation rule: a weight outside [0,1], a negative threshold, a
\* classification cutoff outside [0,1], or cutoffs that are not strictly increasing.
C13_RuleBreakersRejected ==
    (verdict # "none" /\ BreaksRule(candidate)) => verdict = "false"

(***************************************************************************)
(* validateChangeEvent: one conjunction, evaluated left to right, that     *)
(* stops at its first false conjunct.  Reading a property of null raises a *)
(* TypeError.                                                              *)
(***************************************************************************)
ChangeTypes == { "insert", "delete", "replace" }

Sources == { "live", "history", "external" }

\* the conjuncts after `typeof event === 'object' && event !== null', in order:
\* the property read and what is required of it
EventChecks ==
    << << "timestamp", "number" >>, << "sessionId", "string" >>,
       << "fileUri", "string" >>, << "eventId", "string" >>,
       << "changeType", "changeType" >>, << "position", "object" >>,
       << "position", "line" >>, << "position", "character" >>,
       << "contentLength", "number" >>, << "timeSinceLastChange", "number" >>,
       << "timeSinceSessionStart", "number" >>, << "timeSinceFileOpen", "number" >>,
       << "source", "source" >>, << "vsCodeActive", "boolean" >>,
       << "cursorPosition", "object" >>, << "instantTypingSpeed", "number" >>,
       << "rollingTypingSpeed", "number" >>, << "burstDetected", "boolean" >>,
       << "pauseBeforeChange", "number" >>, << "isCodeBlock", "boolean" >>,
       << "isComment", "boolean" >>, << "isWhitespace", "boolean" >>,
       << "languageConstruct", "string" >>, << "indentationLevel", "number" >> >>

\* one conjunct on event: "true", "false", or "TypeError" when it raises
EventCheck(event, check) ==
    LET x == Get(event, check[1])
    IN  CASE check[2] = "changeType" ->
                 IF x.t = "string" /\ x.s \in ChangeTypes THEN "true" ELSE "false"
          [] check[2] = "source" ->
                 IF x.t = "string" /\ x.s \in Sources THEN "true" ELSE "false"
          [] check[2] \in { "line", "character" } ->
                 IF x.t \in { "null", "undefined" } THEN "TypeError"
                 ELSE IF x.t = "object" /\ typeof(Get(x, check[2])) = "number"
                 THEN "true" ELSE "false"
          [] OTHER -> IF typeof(x) = check[2] THEN "true" ELSE "false"

\* the conjuncts from the i-th on
RECURSIVE EventChecksFrom(_, _)
EventChecksFrom(event, i) ==
    IF i > Len(EventChecks) THEN "true"
    ELSE IF EventCheck(event, EventChecks[i]) = "true" THEN EventChecksFrom(event, i + 1)
    ELSE EventCheck(event, EventChecks[i])

validateChangeEvent(event) ==
    IF typeof(event) # "object" \/ event.t = "null" THEN "false"
    ELSE EventChecksFrom(event, 1)

\* { line, character }
PositionObject(line, character) ==
    Obj([ line |-> Num(R(line, 1)), character |-> Num(R(character, 1)) ])

\* the valid event of the validation tests
validChangeEvent ==
    Obj([ timestamp |-> Num(R(SessionStart, 1)), sessionId |-> Str("test-session"),
          fileUri |-> Str("test://file.ts"), eventId |-> Str("test-event"),
          changeType |-> Str("insert"), position |-> PositionObject(1, 0),
          contentLength |-> Num(R(50, 1)), timeSinceLastChange |-> Num(R(1000, 1)),
          timeSinceSessionStart |-> Num(R(5000, 1)),
          timeSinceFileOpen |-> Num(R(10000, 1)),
          source |-> Str("live"), vsCodeActive |-> Bool(TRUE),
          cursorPosition |-> PositionObject(1, 0),
          instantTypingSpeed |-> Num(R(150, 1)), rollingTypingSpeed |-> Num(R(140, 1)),
          burstDetected |-> Bool(FALSE), pauseBeforeChange |-> Num(R(100, 1)),
          isCodeBlock |-> Bool(FALSE), isComment |-> Bool(FALSE),
          isWhitespace |-> Bool(FALSE), languageConstruct |-> Str("function"),
          indentationLevel |-> Num(R(2, 1)) ])

\* values put in the place of a field of the valid event
OddFieldValues ==
    { Undefined, Null, NaN, Num(One), Str("insert"), Str("delete"), Str("replace"),
      Str("live"), Str("history"), Str("external"), Str("invalid"), Bool(TRUE),
      Obj(<< >>), PositionObject(3, 4), Obj([ line |-> Str("1"), character |-> Num(Zero) ]),
      Obj([ line |-> Num(Zero) ]) }

\* the valid event, the valid event with one field replaced or missing, and
\* some values that are no objects
EventCandidates ==
    { validChangeEvent }
    \cup { With(validChangeEvent, k, x) : k \in DOMAIN validChangeEvent.f, x \in OddFieldValues }
    \cup { Without(validChangeEvent, k) : k \in DOMAIN validChangeEvent.f }
    \cup { Null, Undefined, Num(One), Str("event"), Bool(TRUE), Obj(<< >>) }

ValidateEvent(event) ==
    /\ verdict = "none"
    /\ candidate' = event
    /\ verdict' = validateChangeEvent(event)
    /\ UNCHANGED << engineVars, bucketVars, moreVars, serviceVars, configVars, uploadVars,
                    reviewVars, trackerVars >>

EventValidatorNext ==
    \/ /\ verdict = "none"
       /\ \E event \in EventCandidates : ValidateEvent(event)
    \/ ValidatorReturn

SpecEventValidator == ValidatorInit /\ [][EventValidatorNext]_vars

\* x is a Position: an object with a numeric line and a numeric character
IsPosition(x) ==
    /\ x.t = "object"
    /\ typeof(Get(x, "line")) = "number"
    /\ typeof(Get(x, "character")) = "number"

\* x is an event record: an object holding every required field of
\* EnhancedChangeEvent with the right primitive type, a changeType and a source
\* of the enumerations, and Positions for position and cursorPosition
IsEventRecord(x) ==
    /\ x.t = "object"
    /\ \A k \in { "timestamp", "contentLength", "timeSinceLastChange",
                  "timeSinceSessionStart", "timeSinceFileOpen", "instantTypingSpeed",
                  "rollingTypingSpeed", "pauseBeforeChange", "indentationLevel" } :
           typeof(Get(x, k)) = "number"
    /\ \A k \in { "sessionId", "fileUri", "eventId", "languageConstruct" } :
           typeof(Get(x, k)) = "string"
    /\ \A k \in { "vsCodeActive", "burstDetected", "isCodeBlock", "isComment",
                  "isWhitespace" } :
           typeof(Get(x, k)) = "boolean"
    /\ Get(x, "changeType") \in { Str(c) : c \in ChangeTypes }
    /\ Get(x, "source") \in { Str(c) : c \in Sources }
    /\ IsPosition(Get(x, "position"))
    /\ IsPosition(Get(x, "cursorPosition"))

\* C14: validateChangeEvent answers false, and never raises, for every value that
\* is not an event record with all required fields of the right primitive type,
\* a changeType in {insert, delete, replace} and a source in {live, history, external}.
C14_NonEventsRejected ==
    (verdict # "none" /\ ~IsEventRecord(candidate)) => verdict = "false"

(***************************************************************************)
(* ReviewAnalyzer (MetricsLogger.ts): quality assessment of an edit        *)
(* history.  A text is the sequence of its characters.                     *)
(***************************************************************************)
UpperCase ==
    << "A", "B", "C", "D", "E", "F", "G", "H", "I", "J", "K", "L", "M",
       "N", "O", "P", "Q", "R", "S", "T", "U", "V", "W", "X", "Y", "Z" >>

LowerCase ==
    << "a", "b", "c", "d", "e", "f", "g", "h", "i", "j", "k", "l", "m",
       "n", "o", "p", "q", "r", "s", "t", "u", "v", "w", "x", "y", "z" >>

Digits == { "0", "1", "2", "3", "4", "5", "6", "7", "8", "9" }

\* [a-zA-Z_]
IdentifierStart == { UpperCase[i] : i \in 1 .. 26 } \cup { LowerCase[i] : i \in 1 .. 26 } \cup { "_" }

\* \w
WordChars == IdentifierStart \cup Digits

\* String.prototype.toLowerCase
toLowerCase(text) ==
    [ i \in DOMAIN text |->
        IF \E j \in 1 .. 26 : UpperCase[j] = text[i]
        THEN LowerCase[CHOOSE j \in 1 .. 26 : UpperCase[j] = text[i]]
        ELSE text[i] ]

\* String.prototype.includes
includes(text, part) ==
    \E i \in 0 .. Len(text) - Len(part) : SubSeq(text, i + 1, i + Len(part)) = part

\* /\b[a-zA-Z_][a-zA-Z0-9_]*\b/.test(text): an identifier start that follows a
\* word boundary (the longest run of word characters after it ends at one)
looksLikeIdentifier(text) ==
    \E i \in DOMAIN text :
        /\ text[i] \in IdentifierStart
        /\ i = 1 \/ text[i - 1] \notin WordChars

\* String.prototype.substring(0, n)
substring0(text, n) == SubSeq(text, 1, Min(n, Len(text)))

\* the fields of an EnhancedChangeEvent that the analyzer reads; content is
\* << >> when absent and << text >> when present; timestamp is set by Timed
ReviewEvent(len, type, since, comment, cont, construct) ==
    [ timestamp |-> 0, fileUri |-> "test://file.ts", contentLength |-> len,
      changeType |-> type, timeSinceLastChange |-> since, isComment |-> comment,
      content |-> cont, languageConstruct |-> construct ]

\* a few characters typed
TypedInsert == ReviewEvent(10, "insert", 200, FALSE, << << "x" >> >>, "variable")

\* a comment written after a minute of thought, content not kept
ThoughtfulComment == ReviewEvent(30, "insert", 61000, TRUE, << >>, "comment")

\* a function replaced by a longer one that mentions a test
Restructuring ==
    ReviewEvent(150, "replace", 11000, FALSE, << << "T", "e", "s", "t", "(", ")" >> >>, "function")

\* a short replacement after a pause whose text is no identifier
SmallReplace == ReviewEvent(20, "replace", 11000, FALSE, << << "4", "2" >> >>, "unknown")

\* a deletion with empty content
SmallDelete == ReviewEvent(5, "delete", 6000, FALSE, << << >> >>, "unknown")

ReviewShapes == { TypedInsert, ThoughtfulComment, Restructuring, SmallReplace, SmallDelete }

\* 30 * 60 * 1000
sessionGapThreshold == 30 * 60 * 1000

\* distances between two consecutive timestamps: a second, exactly the
\* session gap threshold, more than two hours
ReviewGaps == { 1000, sessionGapThreshold, 2 * 60 * 60 * 1000 + 1 }

\* the shapes with timestamps: the first at SessionStart, each later one
\* after the gap chosen for it
RECURSIVE Timed(_, _)
Timed(shapes, gs) ==
    IF shapes = << >> THEN << >>
    ELSE LET n == Len(shapes)
             before == Timed(SubSeq(shapes, 1, n - 1), gs)
             ts == IF n = 1 THEN SessionStart ELSE before[n - 1].timestamp + gs[n]
         IN  Append(before, [ shapes[n] EXCEPT !.timestamp = ts ])

\* filter(...).length: the number of indices whose element passes the filter
CountOf(indices) == Cardinality(indices)

\* identifyEditSessions after the loop has handled the first n events: the
\* pushed sessions followed by the one still open
RECURSIVE editSessionsUpTo(_, _, _)
editSessionsUpTo(events, n, gapThreshold) ==
    LET fresh == [ start |-> events[n].timestamp, end |-> events[n].timestamp,
                   changeCount |-> 1 ]
    IN  IF n = 1 THEN << fresh >>
        ELSE LET before == editSessionsUpTo(events, n - 1, gapThreshold)
                 open == before[Len(before)]
                 gap == events[n].timestamp - events[n - 1].timestamp
             IN  IF gap > gapThreshold
                 THEN Append(before, fresh)
                 ELSE [ before EXCEPT ![Len(before)] =
                          [ open EXCEPT !.end = events[n].timestamp,
                                        !.changeCount = open.changeCount + 1 ] ]

identifyEditSessions(events, gapThreshold) ==
    IF Len(events) = 0 THEN << >>
    ELSE LET sessions == editSessionsUpTo(events, Len(events), gapThreshold)
         IN  [ i \in DOMAIN sessions |->
                 [ start |-> sessions[i].start, end |-> sessions[i].end,
                   duration |-> sessions[i].end - sessions[i].start,
                   changeCount |-> sessions[i].changeCount ] ]

\* 5 * 60 * 1000
windowSize == 5 * 60 * 1000

\* the windows of calculateEditingVelocity from windowStart on
RECURSIVE velocityFrom(_, _)
velocityFrom(events, windowStart) ==
    IF ~(windowStart < events[Len(events)].timestamp) THEN << >>
    ELSE << CountOf({ i \in DOMAIN events :
                        /\ events[i].timestamp >= windowStart
                        /\ events[i].timestamp < windowStart + windowSize }) >>
         \o velocityFrom(events, windowStart + windowSize)

calculateEditingVelocity(events) ==
    IF Len(events) = 0 THEN << >> ELSE velocityFrom(events, events[1].timestamp)

\* Math.max(...pauses) of a non-empty list of integers
IMax(s) == CHOOSE x \in { s[i] : i \in DOMAIN s } : \A i \in DOMAIN s : s[i] <= x

\* commitInfo is << >> when absent and << [commitTime |-> t] >> when given
calculateTimeMetrics(events, commit) ==
    IF Len(events) = 0
    THEN [ totalDevelopmentTime |-> 0, timeBeforeFirstCommit |-> 0,
           numberOfEditSessions |-> 0, averageSessionLength |-> Zero,
           longestPauseBetweenEdits |-> 0, editingVelocityOverTime |-> << >> ]
    ELSE LET firstChange == events[1].timestamp
             lastChange == events[Len(events)].timestamp
             sessions == identifyEditSessions(events, sessionGapThreshold)
             pauses == [ i \in 1 .. Len(events) - 1 |->
                           events[i + 1].timestamp - events[i].timestamp ]
         IN  [ totalDevelopmentTime |-> lastChange - firstChange,
               timeBeforeFirstCommit |->
                   IF commit # << >> THEN commit[1].commitTime - lastChange ELSE 0,
               numberOfEditSessions |-> Len(sessions),
               averageSessionLength |->
                   IF Len(sessions) > 0
                   THEN R(ISum([ i \in DOMAIN sessions |-> sessions[i].duration ]),
                          Len(sessions))
                   ELSE Zero,
               longestPauseBetweenEdits |-> IF Len(pauses) > 0 THEN IMax(pauses) ELSE 0,
               editingVelocityOverTime |-> calculateEditingVelocity(events) ]

analyzeEditPatterns(events) ==
    [ incrementalEdits |->
          CountOf({ i \in DOMAIN events :
                      events[i].contentLength < 50 /\ events[i].changeType # "delete" }),
      bulkReplacements |->
          CountOf({ i \in DOMAIN events :
                      events[i].changeType = "replace" /\ events[i].contentLength > 100 }),
      refinementEdits |->
          CountOf({ i \in DOMAIN events :
                      events[i].timeSinceLastChange > 10000 /\ events[i].contentLength < 100 }),
      commentAdditions |-> CountOf({ i \in DOMAIN events : events[i].isComment }),
      variableRenames |->
          CountOf({ i \in DOMAIN events :
                      /\ events[i].changeType = "replace"
                      /\ events[i].contentLength < 50
                      /\ events[i].content # << >>
                      /\ events[i].content[1] # << >>
                      /\ looksLikeIdentifier(events[i].content[1]) }),
      structuralChanges |->
          CountOf({ i \in DOMAIN events :
                      events[i].languageConstruct # "unknown" /\ events[i].changeType = "replace" }) ]

\* change.content?.toLowerCase().includes(word)
contentMentions(event, word) ==
    event.content # << >> /\ includes(toLowerCase(event.content[1]), word)

identifyReviewIndicators(events, timeMetrics) ==
    [ multipleEditSessions |-> timeMetrics.numberOfEditSessions > 1,
      pausesForReflection |-> \E i \in DOMAIN events : events[i].timeSinceLastChange > 60000,
      incrementalRefinement |->
          CountOf({ i \in DOMAIN events :
                      /\ i # 1
                      /\ events[i].timeSinceLastChange > 5000
                      /\ events[i].contentLength < events[i - 1].contentLength }) > 2,
      commentaryAdded |-> \E i \in DOMAIN events : events[i].isComment,
      codeRestructuring |->
          \E i \in DOMAIN events :
              /\ events[i].changeType = "replace"
              /\ events[i].contentLength > 50
              /\ events[i].languageConstruct # "unknown",
      testingEvidence |->
          \E i \in DOMAIN events :
              \/ contentMentions(events[i], << "t", "e", "s", "t" >>)
              \/ contentMentions(events[i], << "s", "p", "e", "c" >>)
              \/ contentMentions(events[i], << "a", "s", "s", "e", "r", "t" >>) ]

Half == R(1, 2)

\* the four component scores of calculateScoreBreakdown
timeInvestmentScore(timeMetrics) ==
    (IF timeMetrics.totalDevelopmentTime > 30 * 60 * 1000 THEN 1 ELSE 0)
    + (IF timeMetrics.totalDevelopmentTime > 2 * 60 * 60 * 1000 THEN 1 ELSE 0)
    + (IF timeMetrics.timeBeforeFirstCommit > 10 * 60 * 1000 THEN 1 ELSE 0)

iterationScore(editPatterns, reviewIndicators) ==
    (IF reviewIndicators.multipleEditSessions THEN 1 ELSE 0)
    + (IF editPatterns.refinementEdits > 2 THEN 1 ELSE 0)
    + (IF reviewIndicators.incrementalRefinement THEN 1 ELSE 0)

refinementScore(editPatterns, reviewIndicators) ==
    RSum(<< IF editPatterns.commentAdditions > 0 THEN Half ELSE Zero,
            IF editPatterns.variableRenames > 0 THEN Half ELSE Zero,
            IF reviewIndicators.codeRestructuring THEN Half ELSE Zero,
            IF reviewIndicators.testingEvidence THEN Half ELSE Zero >>)

thoughtfulnessScore(timeMetrics, reviewIndicators) ==
    (IF reviewIndicators.pausesForReflection THEN 1 ELSE 0)
    + (IF timeMetrics.longestPauseBetweenEdits > 5 * 60 * 1000 THEN 1 ELSE 0)

\* a final score that leaves the thoughtfulness score out
finalScoreWithoutThoughtfulness(timePart, iterationPart, refinementPart, thoughtfulnessPart) ==
    RSum(<< R(timePart, 1), R(iterationPart, 1), refinementPart >>)

\* timeInvestmentScore + iterationScore + refinementScore + thoughtfulnessScore
finalScore(timePart, iterationPart, refinementPart, thoughtfulnessPart) ==
    RSum(<< R(timePart, 1), R(iterationPart, 1), refinementPart, R(thoughtfulnessPart, 1) >>)

calculateScoreBreakdown(timeMetrics, editPatterns, reviewIndicators) ==
    LET timePart == timeInvestmentScore(timeMetrics)
        iterationPart == iterationScore(editPatterns, reviewIndicators)
        refinementPart == refinementScore(editPatterns, reviewIndicators)
        thoughtfulnessPart == thoughtfulnessScore(timeMetrics, reviewIndicators)
    IN  [ timeInvestment |-> timeMetrics.totalDevelopmentTime,
          iterationCount |-> timeMetrics.numberOfEditSessions,
          externalToolUsage |-> 0,
          humanRefinement |-> editPatterns.refinementEdits,
          timeInvestmentScore |-> timePart,
          iterationScore |-> iterationPart,
          refinementScore |-> refinementPart,
          thoughtfulnessScore |-> thoughtfulnessPart,
          finalScore |-> finalScore(timePart, iterationPart, refinementPart, thoughtfulnessPart) ]

determineQualityLevel(score) ==
    IF RLe(score, R(2, 1)) THEN "immediate-commit"
    ELSE IF RLe(score, R(5, 1)) THEN "light-review"
    ELSE IF RLe(score, R(8, 1)) THEN "thorough-review"
    ELSE "extensive-review"

\* the tenths are added as decimal fractions
calculateConfidence(events, scoreBreakdown) ==
    RMin(RSum(<< R(7, 10),
                 IF Len(events) > 10 THEN R(1, 10) ELSE Zero,
                 IF Len(events) > 50 THEN R(1, 10) ELSE Zero,
                 IF \/ RLe(scoreBreakdown.finalScore, R(2, 1))
                    \/ RLe(R(8, 1), scoreBreakdown.finalScore)
                 THEN R(1, 10) ELSE Zero >>),
         One)

reviewExtractEvidence(events, timeMetrics) ==
    LET longPauses == SelectSeq([ i \in 1 .. Len(events) - 1 |-> i + 1 ],
                                LAMBDA i : events[i].timestamp - events[i - 1].timestamp > 30000)
        refinements == SelectSeq(events,
                                 LAMBDA e : /\ e.timeSinceLastChange > 10000
                                            /\ e.contentLength < 100
                                            /\ e.content # << >>
                                            /\ e.content[1] # << >>)
    IN  [ editTimeline |->
              [ i \in DOMAIN events |->
                  [ timestamp |-> events[i].timestamp,
                    editType |-> << events[i].changeType, events[i].languageConstruct >>,
                    significance |-> IF events[i].contentLength > 100 THEN 3
                                     ELSE IF events[i].contentLength > 20 THEN 2 ELSE 1 ] ],
          pauseAnalysis |->
              [ k \in DOMAIN longPauses |->
                  LET i == longPauses[k]
                      pause == events[i].timestamp - events[i - 1].timestamp
                  IN  [ duration |-> pause,
                        context |-> events[i - 1].languageConstruct,
                        likelyActivity |-> IF pause > 300000 THEN "extended-break"
                                           ELSE IF pause > 60000 THEN "thinking-reviewing"
                                           ELSE "brief-pause" ] ],
          refinementExamples |->
              LET examples == [ i \in DOMAIN refinements |->
                                  substring0(refinements[i].content[1], 50) ]
              IN  SubSeq(examples, 1, Min(5, Len(examples))) ]

createPatterns(reviewIndicators, timeMetrics, editPatterns) ==
    [ immediateCommit |-> timeMetrics.timeBeforeFirstCommit < 5 * 60 * 1000,
      multiSessionReview |-> reviewIndicators.multipleEditSessions,
      crossToolCollaboration |-> FALSE,
      incrementalRefinement |-> reviewIndicators.incrementalRefinement,
      multipleEditSessions |-> reviewIndicators.multipleEditSessions,
      pausesForReflection |-> reviewIndicators.pausesForReflection,
      commentaryAdded |-> reviewIndicators.commentaryAdded,
      codeRestructuring |-> reviewIndicators.codeRestructuring,
      testingEvidence |-> reviewIndicators.testingEvidence ]

\* an empty assessment with the base confidence in place of 1.0
createEmptyAssessmentBaseConfidence ==
    [ overallScore |-> Zero,
      breakdown |-> [ timeInvestment |-> 0, iterationCount |-> 0, externalToolUsage |-> 0,
                      humanRefinement |-> 0, timeInvestmentScore |-> 0, iterationScore |-> 0,
                      refinementScore |-> Zero, thoughtfulnessScore |-> 0, finalScore |-> Zero ],
      patterns |-> [ immediateCommit |-> TRUE, multiSessionReview |-> FALSE,
                     crossToolCollaboration |-> FALSE, incrementalRefinement |-> FALSE,
                     multipleEditSessions |-> FALSE, pausesForReflection |-> FALSE,
                     commentaryAdded |-> FALSE, codeRestructuring |-> FALSE,
                     testingEvidence |-> FALSE ],
      evidence |-> [ editTimeline |-> << >>, pauseAnalysis |-> << >>,
                     refinementExamples |-> << >> ],
      qualityLevel |-> "immediate-commit",
      confidence |-> R(7, 10) ]

createEmptyAssessment ==
    [ overallScore |-> Zero,
      breakdown |-> [ timeInvestment |-> 0, iterationCount |-> 0, externalToolUsage |-> 0,
                      humanRefinement |-> 0, timeInvestmentScore |-> 0, iterationScore |-> 0,
                      refinementScore |-> Zero, thoughtfulnessScore |-> 0, finalScore |-> Zero ],
      patterns |-> [ immediateCommit |-> TRUE, multiSessionReview |-> FALSE,
                     crossToolCollaboration |-> FALSE, incrementalRefinement |-> FALSE,
                     multipleEditSessions |-> FALSE, pausesForReflection |-> FALSE,
                     commentaryAdded |-> FALSE, codeRestructuring |-> FALSE,
                     testingEvidence |-> FALSE ],
      evidence |-> [ editTimeline |-> << >>, pauseAnalysis |-> << >>,
                     refinementExamples |-> << >> ],
      qualityLevel |-> "immediate-commit",
      confidence |-> One ]

\* what assessQuality computes for a non-empty history: the record it logs
\* (analysisId and the clock readings left out) and the assessment it returns
reviewMetrics(events, commit) ==
    LET timeMetrics == calculateTimeMetrics(events, commit)
        editPatterns == analyzeEditPatterns(events)
        reviewIndicators == identifyReviewIndicators(events, timeMetrics)
        scoreBreakdown == calculateScoreBreakdown(timeMetrics, editPatterns, reviewIndicators)
    IN  [ sessionId |-> "test-session", fileUri |-> events[1].fileUri,
          timeMetrics |-> timeMetrics, editPatterns |-> editPatterns,
          reviewIndicators |-> reviewIndicators, scoreBreakdown |-> scoreBreakdown,
          qualityLevel |-> determineQualityLevel(scoreBreakdown.finalScore),
          confidence |-> calculateConfidence(events, scoreBreakdown),
          evidence |-> reviewExtractEvidence(events, timeMetrics),
          patterns |-> createPatterns(reviewIndicators, timeMetrics, editPatterns) ]

\* the assessment returned for a non-empty history
reviewAssessment(metrics) ==
    [ overallScore |-> metrics.scoreBreakdown.finalScore,
      breakdown |-> metrics.scoreBreakdown,
      patterns |-> metrics.patterns,
      evidence |-> metrics.evidence,
      qualityLevel |-> metrics.qualityLevel,
      confidence |-> metrics.confidence ]

\* the record handed to logger.logReviewQualityMetrics
reviewLogRecord(metrics) ==
    [ sessionId |-> metrics.sessionId, fileUri |-> metrics.fileUri,
      timeMetrics |-> metrics.timeMetrics, editPatterns |-> metrics.editPatterns,
      reviewIndicators |-> metrics.reviewIndicators,
      scoreBreakdown |-> metrics.scoreBreakdown, qualityLevel |-> metrics.qualityLevel,
      confidence |-> metrics.confidence, evidence |-> metrics.evidence, version |-> "1.0" ]

\* commit times offered with a history: none, a second after the last change,
\* more than ten minutes after it
CommitInfos(events) ==
    { << >> }
    \cup { << [ commitTime |-> (IF events = << >> THEN SessionStart
                                ELSE events[Len(events)].timestamp) + d ] >> :
             d \in { 1000, 10 * 60 * 1000 + 1 } }

\* assessQuality up to its await: the empty history returns at once, any other
\* is assessed and its metrics handed to the logger
AssessQuality(events, commit) ==
    /\ rpc = "idle"
    /\ rChanges' = events
    /\ commitInfo' = commit
    /\ IF Len(events) = 0
       THEN /\ assessment' = << createEmptyAssessment >>
            /\ reviewLog' = << >>
            /\ rpc' = "returned"
       ELSE /\ assessment' = << >>
            /\ reviewLog' = << reviewLogRecord(reviewMetrics(events, commit)) >>
            /\ rpc' = "logging"
    /\ UNCHANGED << engineVars, bucketVars, moreVars, serviceVars, configVars, uploadVars,
                    validatorVars, trackerVars >>

\* logReviewMetrics has settled: assessQuality returns the assessment
AssessQualityReturn ==
    /\ rpc = "logging"
    /\ rpc' = "returned"
    /\ assessment' = << reviewAssessment(reviewMetrics(rChanges, commitInfo)) >>
    /\ UNCHANGED << rChanges, commitInfo, reviewLog >>
    /\ UNCHANGED << engineVars, bucketVars, moreVars, serviceVars, configVars, uploadVars,
                    validatorVars, trackerVars >>

\* the caller takes the assessment
ReviewTake ==
    /\ rpc = "returned"
    /\ rpc' = "idle"
    /\ rChanges' = << >>
    /\ commitInfo' = << >>
    /\ assessment' = << >>
    /\ reviewLog' = << >>
    /\ UNCHANGED << engineVars, bucketVars, moreVars, serviceVars, configVars, uploadVars,
                    validatorVars, trackerVars >>

ReviewInit == EngineInit

ReviewNext ==
    \/ /\ rpc = "idle"
       /\ \E k \in 0 .. MaxChanges :
              \E shapes \in [ 1 .. k -> ReviewShapes ], gs \in [ 2 .. k -> ReviewGaps ] :
                  \E commit \in CommitInfos(Timed(shapes, gs)) :
                      AssessQuality(Timed(shapes, gs), commit)
    \/ AssessQualityReturn
    \/ ReviewTake

SpecReview == ReviewInit /\ [][ReviewNext]_vars

\* C15: assessQuality on an empty event list returns overallScore 0, qualityLevel
\* immediate-commit and confidence 1.0, with or without commit information, and
\* writes no review-metrics log record.
C15_EmptyHistoryAssessment ==
    (rpc = "returned" /\ rChanges = << >>) =>
        /\ assessment[1].overallScore = Zero
        /\ assessment[1].qualityLevel = "immediate-commit"
        /\ assessment[1].confidence = One
        /\ reviewLog = << >>

\* an empty history has been assessed with commit information
C15_Witness ==
    /\ rpc = "returned"
    /\ rChanges = << >>
    /\ commitInfo # << >>
    /\ assessment # << >>

\* C16: for every event list and optional commit time the final score returned by
\* assessQuality is the sum of its four component scores, with time investment
\* in 0..3, iteration in 0..3, refinement in 0..2 in half-point steps and
\* thoughtfulness in 0..2, so the final score lies in 0..10.
C16_FinalScoreIsSumOfParts ==
    rpc = "returned" =>
        LET b == assessment[1].breakdown
        IN  /\ assessment[1].overallScore = b.finalScore
            /\ b.finalScore = RAdd(RAdd(R(b.timeInvestmentScore, 1), R(b.iterationScore, 1)),
                                   RAdd(b.refinementScore, R(b.thoughtfulnessScore, 1)))
            /\ b.timeInvestmentScore \in 0 .. 3
            /\ b.iterationScore \in 0 .. 3
            /\ b.refinementScore \in { R(k, 2) : k \in 0 .. 4 }
            /\ b.thoughtfulnessScore \in 0 .. 2
            /\ RLe(Zero, b.finalScore) /\ RLe(b.finalScore, R(10, 1))

\* a history with commit time has been assessed whose four component scores
\* are all positive, the refinement score not a whole number
C16_Witness ==
    /\ rpc = "returned"
    /\ rChanges # << >>
    /\ commitInfo # << >>
    /\ assessment[1].breakdown.timeInvestmentScore > 0
    /\ assessment[1].breakdown.iterationScore > 0
    /\ assessment[1].breakdown.refinementScore \in { R(1, 2), R(3, 2) }
    /\ assessment[1].breakdown.thoughtfulnessScore > 0

\* the events of a history that follow their predecessor after 30 minutes or more
IdleGaps(events) ==
    { i \in 2 .. Len(events) :
        events[i].timestamp - events[i - 1].timestamp >= 30 * 60 * 1000 }

\* C17: assessQuality starts a new edit session at every event that follows the
\* previous event after an idle gap of 30 minutes or more, and nowhere else: the
\* number of edit sessions is one more than the number of such gaps, and
\* multipleEditSessions is true exactly when there is such a gap.
C17_SessionAtEveryIdleGap ==
    (rpc = "returned" /\ rChanges # << >>) =>
        /\ assessment[1].breakdown.iterationCount = Cardinality(IdleGaps(rChanges)) + 1
        /\ assessment[1].patterns.multipleEditSessions <=> IdleGaps(rChanges) # { }

(***************************************************************************)
(* AIDetectionEngine: updateConfig and getConfig over the life of one      *)
(* engine.                                                                 *)
(***************************************************************************)
\* the partial configurations of Partials and two that name bucketConfig
ConfigPartials ==
    Partials
    \cup { [ bucketConfig |-> [ DEFAULT_BUCKET_CONFIG EXCEPT !.intervalMinutes = 5 ] ],
           [ thresholds |-> StrictThresholds, bucketConfig |-> DEFAULT_BUCKET_CONFIG ] }

\* { ...this.config }
getConfig(cfg) == [ s \in DOMAIN cfg |-> cfg[s] ]

\* engine.updateConfig(newConfig); the copy an earlier getConfig returned is dropped
ConfigUpdate(newConfig) ==
    /\ Len(supplied) < MaxUpdates
    /\ config' = updateConfig(config, newConfig)
    /\ supplied' = Append(supplied, newConfig)
    /\ gotConfig' = << >>
    /\ UNCHANGED << pc, changes, heuristicScores, weightedScores, finalResult,
                    decisionTrace, returned, callConfig, readConfigs >>
    /\ UNCHANGED << bucketVars, moreVars, serviceVars, uploadVars, validatorVars, reviewVars,
                    trackerVars >>

\* engine.getConfig()
GetConfig ==
    /\ gotConfig = << >>
    /\ gotConfig' = << getConfig(config) >>
    /\ UNCHANGED << engineVars, supplied >>
    /\ UNCHANGED << bucketVars, moreVars, serviceVars, uploadVars, validatorVars, reviewVars,
                    trackerVars >>

ConfigInit == EngineInit

ConfigNext ==
    \/ /\ Len(supplied) < MaxUpdates
       /\ \E newConfig \in ConfigPartials : ConfigUpdate(newConfig)
    \/ GetConfig

SpecConfig == ConfigInit /\ [][ConfigNext]_vars

\* the value of section s in the most recent call of the history that named
\* it, or the construction-time value if none did
LastSupplied(history, s) ==
    LET naming == { i \in DOMAIN history : s \in DOMAIN history[i] }
    IN  IF naming = { } THEN DEFAULT_AI_DETECTION_CONFIG[s]
        ELSE history[CHOOSE i \in naming : \A j \in naming : j <= i][s]

\* C18: after any sequence of updateConfig calls with partial configurations,
\* getConfig returns for each section the value of the most recent call that
\* supplied it, or the construction-time value if no call did; and a call changes
\* no section that it does not name.
C18_LastSuppliedSectionWins ==
    /\ [](gotConfig # << >> =>
            \A s \in Sections : gotConfig[1][s] = LastSupplied(supplied, s))
    /\ [][supplied' # supplied =>
            \A s \in Sections \ DOMAIN supplied'[Len(supplied')] : config'[s] = config[s]]_vars

\* getConfig has answered after two calls, the first naming a section that the
\* second does not name and giving it a value other than the constructed one
C18_Witness ==
    /\ gotConfig # << >>
    /\ Len(supplied) = 2
    /\ \E s \in DOMAIN supplied[1] \ DOMAIN supplied[2] :
           /\ supplied[1][s] # DEFAULT_AI_DETECTION_CONFIG[s]
           /\ gotConfig[1][s] = supplied[1][s]

(***************************************************************************)
(* ChangeTracker: the capture of document changes and what it hands to the *)
(* logger.  One file is tracked; notifications are handled one at a time.  *)
(***************************************************************************)
\* \s
Whitespace == { " ", "\t", "\n" }

\* the text without its leading whitespace
RECURSIVE skipWhitespace(_)
skipWhitespace(text) ==
    IF text # << >> /\ text[1] \in Whitespace THEN skipWhitespace(Tail(text)) ELSE text

\* String.prototype.startsWith
startsWith(text, part) == Len(text) >= Len(part) /\ SubSeq(text, 1, Len(part)) = part

\* text begins with word followed by whitespace: word\s+
startsWithWord(text, word) ==
    /\ startsWith(text, word)
    /\ Len(text) > Len(word)
    /\ text[Len(word) + 1] \in Whitespace

\* what follows an optional (word\s+)? at the head of text
afterOptionalWord(text, word) ==
    { text } \cup
    IF startsWithWord(text, word)
    THEN { skipWhitespace(SubSeq(text, Len(word) + 1, Len(text))) }
    ELSE { }

wordFunction == << "f", "u", "n", "c", "t", "i", "o", "n" >>
wordClass == << "c", "l", "a", "s", "s" >>
wordInterface == << "i", "n", "t", "e", "r", "f", "a", "c", "e" >>
wordExport == << "e", "x", "p", "o", "r", "t" >>
wordAsync == << "a", "s", "y", "n", "c" >>
wordAbstract == << "a", "b", "s", "t", "r", "a", "c", "t" >>
wordConst == << "c", "o", "n", "s", "t" >>
wordLet == << "l", "e", "t" >>
wordVar == << "v", "a", "r" >>
wordImport == << "i", "m", "p", "o", "r", "t" >>

\* the languages with comment patterns whose comments start with // or /* or *
SlashCommentLanguages == { "typescript", "javascript", "java", "csharp" }

detectComment(text, languageId) ==
    LET body == skipWhitespace(text)
    IN  IF languageId \in SlashCommentLanguages
        THEN \/ startsWith(body, << "/", "/" >>)
             \/ startsWith(body, << "/", "*" >>)
             \/ startsWith(body, << "*" >>)
        ELSE IF languageId = "python" THEN startsWith(body, << "#" >>)
        ELSE FALSE

\* the first construct pattern of the language that matches, in table order
detectLanguageConstruct(text, languageId) ==
    LET body == skipWhitespace(text)
    IN  IF languageId # "typescript" THEN "unknown"
        ELSE IF \E a \in afterOptionalWord(body, wordExport) :
                  \E b \in afterOptionalWord(a, wordAsync) : startsWithWord(b, wordFunction)
        THEN "function"
        ELSE IF \E a \in afterOptionalWord(body, wordExport) :
                  \E b \in afterOptionalWord(a, wordAbstract) : startsWithWord(b, wordClass)
        THEN "class"
        ELSE IF \E a \in afterOptionalWord(body, wordExport) : startsWithWord(a, wordInterface)
        THEN "interface"
        ELSE IF \E w \in { wordConst, wordLet, wordVar } : startsWithWord(body, w)
        THEN "variable"
        ELSE IF startsWithWord(body, wordImport) THEN "import"
        ELSE IF startsWithWord(body, wordExport) THEN "export"
        ELSE "unknown"

\* document.lineAt(line) raises for a line the document does not have
calculateIndentationLevel(document, position) ==
    IF position.line + 1 \in DOMAIN document.indentation
    THEN document.indentation[position.line + 1]
    ELSE 0

analyzeContent(text, document, position) ==
    [ isWhitespace |-> \A i \in DOMAIN text : text[i] \in Whitespace,
      isComment |-> detectComment(text, document.languageId),
      isCodeBlock |-> Len(text) > 50 /\ includes(text, << "\n" >>),
      languageConstruct |-> detectLanguageConstruct(text, document.languageId),
      indentationLevel |-> calculateIndentationLevel(document, position) ]

\* Math.round of the non-negative number n/d
roundRatio(n, d) == (2 * n + d) \div (2 * d)

calculateInstantTypingSpeed(text, timeMs) ==
    IF timeMs = 0 THEN 0 ELSE roundRatio(Len(text) * 60000, timeMs)

calculateRollingTypingSpeed(history, timestamp) ==
    LET recentHistory == SelectSeq(history, LAMBDA entry : entry.timestamp >= timestamp - 30000)
        totalCharacters == ISum([ i \in DOMAIN recentHistory |-> recentHistory[i].length ])
        timeSpan == IF recentHistory = << >> THEN 0 ELSE timestamp - recentHistory[1].timestamp
    IN  IF Len(recentHistory) = 0 \/ timeSpan = 0 THEN 0
        ELSE roundRatio(totalCharacters * 60000, timeSpan)

\* (totalCharacters / 5) * 60 > 300
detectTypingBurst(history, timestamp) ==
    LET lastFiveSeconds == SelectSeq(history, LAMBDA entry : timestamp - entry.timestamp <= 5000)
        totalCharacters == ISum([ i \in DOMAIN lastFiveSeconds |-> lastFiveSeconds[i].length ])
    IN  Len(lastFiveSeconds) >= 3 /\ totalCharacters * 60 > 300 * 5

updateTypingHistory(history, timestamp, contentChanges) ==
    LET totalLength == ISum([ i \in DOMAIN contentChanges |-> Len(contentChanges[i].text) ])
        pushed == Append(history, [ timestamp |-> timestamp, length |-> totalLength ])
    IN  SelectSeq(pushed, LAMBDA entry : entry.timestamp >= timestamp - 60000)

\* << >> for undefined, else << signature >>
detectExternalToolSignature(change, timeSinceLastChange) ==
    LET bulk == Len(change.text) > 100 /\ change.rangeLength = 0
        paste == timeSinceLastChange > 10000 /\ Len(change.text) > 50
        structured == includes(change.text, wordFunction) \/ includes(change.text, wordClass)
        claude == includes(change.text, << "/", "/", " " >>) /\ Len(change.text) > 200
        indicators == (IF bulk THEN << "bulk-insertion" >> ELSE << >>)
                      \o (IF paste THEN << "external-paste" >> ELSE << >>)
                      \o (IF structured THEN << "structured-code" >> ELSE << >>)
                      \o (IF claude THEN << "claude-code-pattern" >> ELSE << >>)
        confidence == RSum(<< IF bulk THEN R(3, 10) ELSE Zero,
                              IF paste THEN R(4, 10) ELSE Zero,
                              IF structured THEN R(2, 10) ELSE Zero,
                              IF claude THEN R(3, 10) ELSE Zero >>)
    IN  IF Len(indicators) > 0
        THEN << [ detected |-> RLt(R(1, 2), confidence),
                  toolType |-> IF claude THEN "claude-code" ELSE "unknown",
                  confidence |-> confidence,
                  indicators |-> indicators ] >>
        ELSE << >>

\* String.prototype.endsWith
endsWith(text, part) ==
    Len(text) >= Len(part) /\ SubSeq(text, Len(text) - Len(part) + 1, Len(text)) = part

ignoredExtensions ==
    { << ".", "l", "o", "g" >>,
      << ".", "t", "m", "p" >>,
      << ".", "c", "a", "c", "h", "e" >> }

ignoredPaths ==
    { << "n", "o", "d", "e", "_", "m", "o", "d", "u", "l", "e", "s" >>,
      << ".", "g", "i", "t" >>,
      << ".", "v", "s", "c", "o", "d", "e" >> }

shouldIgnoreFile(fileName) ==
    \/ \E ext \in ignoredExtensions : endsWith(fileName, ext)
    \/ \E pathPart \in ignoredPaths : includes(fileName, pathPart)

\* vscode.TextDocument: the fields the tracker reads; indentation holds the
\* number of leading whitespace characters of each line
Document(scheme, fileName, languageId) ==
    [ scheme |-> scheme, fileName |-> fileName, languageId |-> languageId,
      indentation |-> << 0, 4 >> ]

\* /w/a.ts
TrackedFile == Document("file", << "/", "w", "/", "a", ".", "t", "s" >>, "typescript")

\* an unsaved buffer
UntitledBuffer == Document("untitled", << "U", "n", "t", "i", "t", "l", "e", "d", "-", "1" >>, "plaintext")

\* /w/node_modules/b.ts
DependencyFile ==
    Document("file",
             << "/", "w", "/", "n", "o", "d", "e", "_", "m", "o", "d", "u", "l", "e", "s", "/", "b", ".", "t", "s" >>,
             "typescript")

\* /w/x.log
LogFile == Document("file", << "/", "w", "/", "x", ".", "l", "o", "g" >>, "log")

Documents == { TrackedFile, UntitledBuffer, DependencyFile, LogFile }

\* n times the character ch
Repeat(ch, n) == [ i \in 1 .. n |-> ch ]

\* vscode.TextDocumentContentChangeEvent
ContentChange(text, rangeLength, line, character) ==
    [ text |-> text, rangeLength |-> rangeLength,
      range |-> [ start |-> [ line |-> line, character |-> character ] ] ]

\* one character typed
KeyStroke == ContentChange(<< "x" >>, 0, 0, 3)

\* a selection of 12 characters deleted
Removal == ContentChange(<< >>, 12, 1, 0)

\* a line replaced by a comment
CommentLine == ContentChange(<< "/", "/", " ", "n", "o", "t", "e" >>, 8, 1, 4)

\* a commented function of more than 200 characters inserted at once
PastedFunction ==
    ContentChange(<< "/", "/", " ", "a", "i" >> \o << "\n" >>
                  \o << "f", "u", "n", "c", "t", "i", "o", "n", " ", "f", "(", ")", " ", "{" >>
                  \o Repeat("x", 200) \o << "\n", "}" >>, 0, 5, 0)

ContentChanges == { KeyStroke, Removal, CommentLine, PastedFunction }

\* vscode.window: whether it is focused, and the active editor's selection
\* (<< >> without an active editor)
WindowStates ==
    { [ focused |-> TRUE,
        editor |-> << [ active |-> [ line |-> 2, character |-> 0 ],
                        start |-> [ line |-> 1, character |-> 0 ],
                        end |-> [ line |-> 2, character |-> 0 ] ] >> ],
      [ focused |-> FALSE, editor |-> << >> ] }

getCurrentCursorPosition(window) ==
    IF window.editor = << >> THEN [ line |-> 0, character |-> 0 ]
    ELSE window.editor[1].active

\* << >> for undefined
getCurrentSelection(window) ==
    IF window.editor = << >> \/ window.editor[1].start = window.editor[1].end THEN << >>
    ELSE << [ start |-> window.editor[1].start, end |-> window.editor[1].end ] >>

\* the contentChanges of a notification: none, one, two or three of them
ChangeLists ==
    { << >>, << KeyStroke >>, << CommentLine, Removal >>,
      << PastedFunction, KeyStroke, KeyStroke >> }

\* the time that passes before a notification is delivered
Delays == { 1000, 11000 }

\* eventId (a fresh uuid) is left out
createEnhancedChangeEvent(document, change, timestamp, source, window) ==
    LET lastChange == IF lastChangeTime # << >> THEN lastChangeTime[1] ELSE SessionStart
        fileOpenTime == IF fileOpenTimes # << >> THEN fileOpenTimes[1] ELSE timestamp
        timeSinceLastChange == timestamp - lastChange
        contentAnalysis == analyzeContent(change.text, document, change.range.start)
        enhancedEvent ==
            [ timestamp |-> timestamp,
              sessionId |-> "session",
              fileUri |-> document.fileName,
              changeType |-> IF change.rangeLength = 0 THEN "insert"
                             ELSE IF Len(change.text) = 0 THEN "delete"
                             ELSE "replace",
              position |-> [ line |-> change.range.start.line,
                             character |-> change.range.start.character ],
              contentLength |-> Len(change.text),
              timeSinceLastChange |-> timeSinceLastChange,
              timeSinceSessionStart |-> timestamp - SessionStart,
              timeSinceFileOpen |-> timestamp - fileOpenTime,
              source |-> source,
              vsCodeActive |-> window.focused,
              cursorPosition |-> getCurrentCursorPosition(window),
              selectionRange |-> getCurrentSelection(window),
              instantTypingSpeed |-> calculateInstantTypingSpeed(change.text, timeSinceLastChange),
              rollingTypingSpeed |-> calculateRollingTypingSpeed(typingHistory, timestamp),
              burstDetected |-> detectTypingBurst(typingHistory, timestamp),
              pauseBeforeChange |-> timeSinceLastChange,
              isCodeBlock |-> contentAnalysis.isCodeBlock,
              isComment |-> contentAnalysis.isComment,
              isWhitespace |-> contentAnalysis.isWhitespace,
              languageConstruct |-> contentAnalysis.languageConstruct,
              indentationLevel |-> contentAnalysis.indentationLevel,
              externalToolSignature |->
                  detectExternalToolSignature(change, timeSinceLastChange) ]
    IN  IF source = "live" THEN enhancedEvent @@ ("content" :> change.text)
        ELSE enhancedEvent

\* variant: the event as it is, content included
eventToLogWithContent(enhancedEvent) == enhancedEvent

\* const { content: _content, ...eventToLog } = enhancedEvent
eventToLog(enhancedEvent) ==
    [ k \in DOMAIN enhancedEvent \ { "content" } |-> enhancedEvent[k] ]

\* { ...eventToLog, _loggedAt: timestamp, _version: '1.0' }
changeEventLog(enhancedEvent, timestamp) ==
    ("_loggedAt" :> timestamp) @@ ("_version" :> "1.0") @@ eventToLog(enhancedEvent)

\* onDocumentChange up to its loop: documents of other schemes and ignored
\* files return at once
DocumentChange(document, contentChanges, delay) ==
    /\ tpc = "idle"
    /\ notified < MaxNotifications
    /\ notified' = notified + 1
    /\ now' = now + delay
    /\ IF document.scheme # "file" \/ shouldIgnoreFile(document.fileName)
       THEN UNCHANGED << tpc, notification, pending >>
       ELSE /\ tpc' = "handling"
            /\ notification' = << [ document |-> document, contentChanges |-> contentChanges,
                                    timestamp |-> now' ] >>
            /\ pending' = contentChanges
    /\ UNCHANGED << lastChangeTime, fileOpenTimes, typingHistory, changeLog >>
    /\ UNCHANGED << engineVars, bucketVars, moreVars, serviceVars, configVars, uploadVars,
                    validatorVars, reviewVars >>

\* one iteration of the loop: the event is created and handed to the logger
\* without its content
LogChange(window) ==
    /\ tpc = "handling"
    /\ pending # << >>
    /\ changeLog' =
           Append(changeLog,
                  changeEventLog(createEnhancedChangeEvent(notification[1].document, pending[1],
                                                           notification[1].timestamp, "live",
                                                           window),
                                 notification[1].timestamp))
    /\ pending' = Tail(pending)
    /\ UNCHANGED << tpc, now, notification, lastChangeTime, fileOpenTimes, typingHistory,
                    notified >>
    /\ UNCHANGED << engineVars, bucketVars, moreVars, serviceVars, configVars, uploadVars,
                    validatorVars, reviewVars >>

\* after the loop: lastChangeTime.set and updateTypingHistory
DocumentChangeDone ==
    /\ tpc = "handling"
    /\ pending = << >>
    /\ lastChangeTime' = << notification[1].timestamp >>
    /\ typingHistory' = updateTypingHistory(typingHistory, notification[1].timestamp,
                                            notification[1].contentChanges)
    /\ tpc' = "idle"
    /\ notification' = << >>
    /\ UNCHANGED << now, pending, fileOpenTimes, notified, changeLog >>
    /\ UNCHANGED << engineVars, bucketVars, moreVars, serviceVars, configVars, uploadVars,
                    validatorVars, reviewVars >>

\* onDocumentOpen: the open time of a tracked file is kept
DocumentOpen(document, delay) ==
    /\ tpc = "idle"
    /\ notified < MaxNotifications
    /\ notified' = notified + 1
    /\ now' = now + delay
    /\ fileOpenTimes' = IF document.scheme # "file" \/ shouldIgnoreFile(document.fileName)
                        THEN fileOpenTimes
                        ELSE << now' >>
    /\ UNCHANGED << tpc, notification, pending, lastChangeTime, typingHistory, changeLog >>
    /\ UNCHANGED << engineVars, bucketVars, moreVars, serviceVars, configVars, uploadVars,
                    validatorVars, reviewVars >>

TrackerInit == EngineInit

TrackerNext ==
    \/ /\ tpc = "idle" /\ notified < MaxNotifications
       /\ \E document \in Documents : \E contentChanges \in ChangeLists : \E delay \in Delays :
              DocumentChange(document, contentChanges, delay)
    \/ /\ tpc = "handling" /\ pending # << >>
       /\ \E window \in WindowStates : LogChange(window)
    \/ DocumentChangeDone
    \/ /\ tpc = "idle" /\ notified < MaxNotifications
       /\ \E document \in Documents : \E delay \in Delays : DocumentOpen(document, delay)

SpecTracker == TrackerInit /\ [][TrackerNext]_vars

\* the non-empty texts of the edits the tracker is notified of
EditTexts == { c.text : c \in ContentChanges } \ { << >> }

\* the fields of a ChangeEventLog other than content; of these only fileUri
\* holds a text
MetadataFields ==
    { "timestamp", "sessionId", "fileUri", "changeType", "position", "contentLength",
      "timeSinceLastChange", "timeSinceSessionStart", "timeSinceFileOpen", "source",
      "vsCodeActive", "cursorPosition", "selectionRange", "instantTypingSpeed",
      "rollingTypingSpeed", "burstDetected", "pauseBeforeChange", "isCodeBlock",
      "isComment", "isWhitespace", "languageConstruct", "indentationLevel",
      "externalToolSignature", "_loggedAt", "_version" }

\* C19: no change-event record that the ChangeTracker hands to the logger carries
\* the raw text content of the edit: a record has no content field, nor any field
\* besides the metadata fields, and its one text-valued field is not the text of
\* an edit; this for every document change and every number of content changes
\* in one notification.
C19_NoContentLogged ==
    \A i \in DOMAIN changeLog :
        /\ "content" \notin DOMAIN changeLog[i]
        /\ DOMAIN changeLog[i] \subseteq MetadataFields
        /\ changeLog[i].fileUri \notin EditTexts

\* a notification with three content changes, the first a pasted function, has
\* been handled and its three records handed to the logger
C19_Witness ==
    /\ tpc = "idle"
    /\ Len(changeLog) >= 3
    /\ \E i \in DOMAIN changeLog : changeLog[i].contentLength > 200

\* C20: the timeline returned by analyze partitions the input events into
\* VSCode-origin and external-origin events: every input event is represented in
\* exactly one of vsCodeEvents and externalEvents, and it is in externalEvents
\* exactly when it carries a detected external-tool signature.
C20_TimelinePartitionsEvents ==
    Analysed =>
        \A i \in DOMAIN changes :
            LET timeline == returned[1].timeline
                inVsCode == \E j \in DOMAIN timeline.vsCodeEvents :
                                timeline.vsCodeEvents[j] = changes[i]
                inExternal == \E j \in DOMAIN timeline.externalEvents :
                                  timeline.externalEvents[j].timestamp = changes[i].timestamp
            IN  /\ inVsCode # inExternal
                /\ inExternal <=> Detected(changes[i])

(***************************************************************************)
(* Further claims about the bucket analyzer, checked under SpecBuckets.    *)
(***************************************************************************)
\* the indices of the analysed buckets that hold enough events to be active
ActiveIndices == { i \in DOMAIN analysed : analysed[i].eventCount >= bConfig.minEventsPerBucket }

\* the sum of the AI probabilities of the analysed buckets with index in I
RECURSIVE ProbabilitySum(_)
ProbabilitySum(I) ==
    IF I = { } THEN Zero
    ELSE LET i == CHOOSE j \in I : TRUE
         IN  RAdd(analysed[i].aiProbability[1], ProbabilitySum(I \ { i }))

\* C21: summarizeBuckets computes averageAIProbability and maxAIProbability over
\* the active (non-empty) buckets only, reports totalBuckets = activeBuckets +
\* emptyBuckets, and reports both probabilities as 0 when no bucket is active.
C21_SummaryOverActiveBuckets ==
    bpc = "summarised" =>
        LET s == summary[1]
            n == Cardinality(ActiveIndices)
        IN  /\ s.activeBuckets = n
            /\ s.totalBuckets = Len(analysed)
            /\ s.totalBuckets = s.activeBuckets + s.emptyBuckets
            /\ n = 0 => s.averageAIProbability = Zero /\ s.maxAIProbability = Zero
            /\ n > 0 =>
                 /\ s.averageAIProbability = RMul(ProbabilitySum(ActiveIndices), R(1, n))
                 /\ \E i \in ActiveIndices : analysed[i].aiProbability[1] = s.maxAIProbability
                 /\ \A i \in ActiveIndices : RLe(analysed[i].aiProbability[1], s.maxAIProbability)

\* buckets have been summarised of which some are active, with a positive
\* average probability, and some are empty
C21_Witness ==
    /\ bpc = "summarised"
    /\ summary[1].activeBuckets > 0
    /\ summary[1].emptyBuckets > 0
    /\ RLt(Zero, summary[1].averageAIProbability)

(***************************************************************************)
(* createBuckets on its own, for every bucket configuration of a           *)
(* configuration the validator accepts.                                    *)
(***************************************************************************)
\* bucket configurations with an interval of a minute, of none and of less
AnyBucketConfigs ==
    { [ intervalMinutes |-> m, aggregationMethod |-> "average", minEventsPerBucket |-> e ]
        : m \in { -1, 0, 1 }, e \in { 0, 1 } }

\* validateAIDetectionConfig(config) for the default configuration carrying cfg
AcceptedBucketConfig(cfg) ==
    validateAIDetectionConfig(
        ConfigObject([ DEFAULT_AI_DETECTION_CONFIG EXCEPT !.bucketConfig = cfg ])) = "true"

\* the caller takes the buckets createBuckets returned
TakeBuckets ==
    /\ bpc = "created"
    /\ bpc' = "idle"
    /\ bEvents' = << >>
    /\ bConfig' = DEFAULT_BUCKET_CONFIG
    /\ time' = 0
    /\ buckets' = << >>
    /\ UNCHANGED << analysed, engineCalls, summary, engineVars, restVars >>

CreateBucketsNext ==
    \/ /\ bpc = "idle"
       /\ \E events \in BucketEventLists, cfg \in AnyBucketConfigs :
              /\ AcceptedBucketConfig(cfg)
              /\ CreateBucketsBegin(events, cfg)
    \/ CreateBucketsIterate
    \/ CreateBucketsReturn
    \/ TakeBuckets

SpecCreateBuckets == BucketsInit /\ [][CreateBucketsNext]_vars

\* C22: createBuckets terminates and returns a finite list of buckets for every
\* event list and every bucket configuration carried by a configuration that
\* validateAIDetectionConfig accepts, an intervalMinutes of zero or less
\* included: every iteration of its loop moves time on, towards the end time.
C22_CreateBucketsLoopAdvances ==
    [][(bpc = "loop" /\ bpc' = "loop") => time' > time]_vars

(***************************************************************************)
(* getConfig and the objects it shares                                     *)
(* validation.test.ts 282-284 (constructor), 296-298 (getConfig);          *)
(* AIDetectionService.ts 38-42 (the service's engine).  An object spread   *)
(* copies the four section references, not the section objects.            *)
(***************************************************************************)

AliasEngines == DOMAIN engines

\* what a caller writes into a section of the object getConfig returned
Modifications ==
    { << "weights", "bulkInsertionScore", R(9, 10) >>,
      << "thresholds", "bulkInsertionSize", 1 >>,
      << "classification", "humanThreshold", R(1, 10) >>,
      << "bucketConfig", "intervalMinutes", 0 >> }

\* the configuration an object with these section references holds
Deref(obj) == [ s \in DOMAIN obj |-> heap[obj[s]] ]

\* copy = engine.getConfig(): return { ...this.config }
AliasGetConfig(e) ==
    /\ copy = << >>
    /\ copy' = << [ s \in DOMAIN engines[e] |-> engines[e][s] ] >>
    /\ UNCHANGED << heap, engines >>
    /\ UNCHANGED notAlias

\* copy[section][field] = value
ModifyNested(m) ==
    /\ copy # << >>
    /\ heap' = [ heap EXCEPT ![copy[1][m[1]]] = [ @ EXCEPT ![m[2]] = m[3] ] ]
    /\ UNCHANGED << engines, copy >>
    /\ UNCHANGED notAlias

\* copy[section] = { ...copy[section], field: value }: a new section object
ReplaceSection(m) ==
    /\ copy # << >>
    /\ LET r == Ref("copy", m[1])
           v == [ heap[copy[1][m[1]]] EXCEPT ![m[2]] = m[3] ]
       IN /\ heap' = [ x \in DOMAIN heap \cup { r } |-> IF x = r THEN v ELSE heap[x] ]
          /\ copy' = << [ copy[1] EXCEPT ![m[1]] = r ] >>
    /\ UNCHANGED engines
    /\ UNCHANGED notAlias

\* the caller drops the object
DropCopy ==
    /\ copy # << >>
    /\ copy' = << >>
    /\ UNCHANGED << heap, engines >>
    /\ UNCHANGED notAlias

AliasInit == EngineInit

AliasNext ==
    \/ \E e \in AliasEngines : AliasGetConfig(e)
    \/ \E m \in Modifications : ModifyNested(m)
    \/ \E m \in Modifications : ReplaceSection(m)
    \/ DropCopy

SpecAlias == AliasInit /\ [][AliasNext]_vars

\* C23: whatever is done to an object getConfig returned, nested sections
\* included, every engine keeps the configuration it was constructed with and
\* the exported default keeps its values
C23_ReturnedConfigIsACopy ==
    /\ Deref(DefaultObject) = DEFAULT_AI_DETECTION_CONFIG
    /\ \A e \in AliasEngines : Deref(engines[e]) = DEFAULT_AI_DETECTION_CONFIG

\* the insert events of a list
InsertEvents(events) == Filter(events, LAMBDA change : change.changeType = "insert")

\* C24: the bulk-insertion score of a call is the number of insert events
\* longer than thresholds.bulkInsertionSize divided by the number of insert
\* events of the list
C24_BulkFractionOfInserts ==
    (heuristicScores # << >> /\ Len(InsertEvents(changes)) > 0) =>
        LET inserts == InsertEvents(changes)
            bulk == Filter(inserts, LAMBDA change :
                        change.contentLength > config.thresholds.bulkInsertionSize)
        IN  heuristicScores[1].bulkInsertionScore = R(Len(bulk), Len(inserts))

(***************************************************************************)
(* ParameterTuning: the sliders, the debounced update and the reset        *)
(* DataService.ts 366-512.  currentConfig is the store's configuration     *)
(* (page.tsx 120); updateConfig hands a configuration to the engine's      *)
(* updateConfig.                                                           *)
(***************************************************************************)

\* handler calls of one explored session
MaxPanelCalls == 2

RDiv(x, y) == RMul(x, R(y[2], y[1]))
RAbs(x) == R(Abs(x[1]), x[2])
RMax2(x, y) == IF RLt(x, y) THEN y ELSE x

\* positions of a weight slider (min 0, max 1, step 0.05): both ends and the middle
SliderValues == { Zero, Half, One }

\* resetToDefaults' defaultConfig
PanelDefaultConfig ==
    [ weights |->
        [ bulkInsertionScore |-> R(15, 100), typingSpeedScore |-> R(70, 100),
          pastePatternScore |-> R(5, 100), externalToolScore |-> R(5, 100),
          contentPatternScore |-> R(3, 100), timingAnomalyScore |-> R(2, 100) ],
      thresholds |->
        [ bulkInsertionSize |-> 100, fastTypingSpeed |-> 300, pasteTimeThreshold |-> 100,
          longPauseThreshold |-> 5000, rapidSequenceThreshold |-> 100 ],
      classification |->
        [ humanThreshold |-> R(3, 10), aiAssistedThreshold |-> R(7, 10),
          aiGeneratedThreshold |-> R(9, 10) ],
      bucketConfig |->
        [ intervalMinutes |-> 15, aggregationMethod |-> "average", minEventsPerBucket |-> 1 ] ]

\* Object.keys(currentWeights).filter(key => key !== heuristic)
OtherKeys(heuristic) == Filter(Heuristics, LAMBDA key : key # heuristic)

\* otherKeys.reduce((maxKey, key) => w[key] > w[maxKey] ? key : maxKey)
RECURSIVE LargestKey(_, _, _)
LargestKey(w, keys, maxKey) ==
    IF keys = << >> THEN maxKey
    ELSE LargestKey(w, Tail(keys), IF RLt(w[maxKey], w[Head(keys)]) THEN Head(keys) ELSE maxKey)

\* variant: the moved weight is set and the other five are left as they were
handleWeightChangeUnbalanced(currentConfig, heuristic, value) ==
    [ currentConfig EXCEPT !.weights = [ @ EXCEPT ![heuristic] = value ] ]

\* the newConfig of handleWeightChange(heuristic, value)
handleWeightChange(currentConfig, heuristic, value) ==
    LET currentWeights == currentConfig.weights
        otherKeys == OtherKeys(heuristic)
        otherWeightsSum == RSum([ i \in DOMAIN otherKeys |-> currentWeights[otherKeys[i]] ])
        remainingWeight == RSub(One, value)
        scaled == [ key \in DOMAIN currentWeights |->
            IF key = heuristic THEN value
            ELSE IF otherWeightsSum = Zero
                 THEN RMax2(Zero, RDiv(remainingWeight, R(Len(otherKeys), 1)))
                 ELSE RMax2(Zero, RMul(currentWeights[key],
                                       RDiv(remainingWeight, otherWeightsSum))) ]
        totalWeight == RSum([ i \in DOMAIN Heuristics |-> scaled[Heuristics[i]] ])
        adjustment == RSub(One, totalWeight)
        largestOtherKey == LargestKey(scaled, Tail(otherKeys), Head(otherKeys))
        adjusted ==
            IF RLt(R(1, 1000), RAbs(RSub(totalWeight, One)))
            THEN [ scaled EXCEPT ![largestOtherKey] = RMax2(Zero, RAdd(@, adjustment)) ]
            ELSE scaled
    IN  [ currentConfig EXCEPT !.weights =
            IF Len(otherKeys) = 0 THEN [ currentWeights EXCEPT ![heuristic] = value ]
            ELSE adjusted ]

\* the newConfig of handleThresholdChange, handleClassificationChange and
\* handleBucketConfigChange: the section copied with one field replaced
withSetting(currentConfig, section, key, value) ==
    [ currentConfig EXCEPT ![section] = [ @ EXCEPT ![key] = value ] ]

\* setAiDetectionConfig(newConfig); debouncedUpdateConfig(newConfig): a pending
\* timer is cleared and a new one set
WriteAndDebounce(newConfig, call) ==
    /\ aiDetectionConfig' = newConfig
    /\ debounceTimeout' = << newConfig >>
    /\ panelCalls' = panelCalls + 1
    /\ lastCall' = << call >>
    /\ UNCHANGED engineConfig
    /\ UNCHANGED notPanel

HandleWeightChange(heuristic, value) ==
    /\ panelCalls < MaxPanelCalls
    /\ WriteAndDebounce(handleWeightChange(aiDetectionConfig, heuristic, value),
                     [ handler |-> "handleWeightChange", key |-> heuristic, value |-> value ])

HandleThresholdChange(threshold, value) ==
    /\ panelCalls < MaxPanelCalls
    /\ WriteAndDebounce(withSetting(aiDetectionConfig, "thresholds", threshold, value),
                     [ handler |-> "handleThresholdChange", key |-> threshold, value |-> value ])

HandleClassificationChange(classification, value) ==
    /\ panelCalls < MaxPanelCalls
    /\ WriteAndDebounce(withSetting(aiDetectionConfig, "classification", classification, value),
                     [ handler |-> "handleClassificationChange", key |-> classification,
                       value |-> value ])

HandleBucketConfigChange(setting, value) ==
    /\ panelCalls < MaxPanelCalls
    /\ WriteAndDebounce(withSetting(aiDetectionConfig, "bucketConfig", setting, value),
                     [ handler |-> "handleBucketConfigChange", key |-> setting,
                       value |-> value ])

\* resetToDefaults: the store and the engine get the defaults at once; the
\* debounce timer is not touched
ResetToDefaults ==
    /\ panelCalls < MaxPanelCalls
    /\ aiDetectionConfig' = PanelDefaultConfig
    /\ engineConfig' = updateConfig(engineConfig, PanelDefaultConfig)
    /\ panelCalls' = panelCalls + 1
    /\ lastCall' = << [ handler |-> "resetToDefaults", key |-> "", value |-> Zero ] >>
    /\ UNCHANGED debounceTimeout
    /\ UNCHANGED notPanel

\* 300 ms after the last debouncedUpdateConfig: updateConfig(newConfig)
DebounceFires ==
    /\ debounceTimeout # << >>
    /\ engineConfig' = updateConfig(engineConfig, debounceTimeout[1])
    /\ debounceTimeout' = << >>
    /\ UNCHANGED << aiDetectionConfig, panelCalls, lastCall >>
    /\ UNCHANGED notPanel

PanelInit == EngineInit

PanelNext ==
    \/ \E heuristic \in HeuristicNames, value \in SliderValues :
            HandleWeightChange(heuristic, value)
    \/ \E value \in { 10, 500 } : HandleThresholdChange("bulkInsertionSize", value)
    \/ \E value \in { R(1, 10), Half } : HandleClassificationChange("humanThreshold", value)
    \/ \E value \in { 5, 60 } : HandleBucketConfigChange("intervalMinutes", value)
    \/ ResetToDefaults
    \/ DebounceFires

SpecPanel == PanelInit /\ [][PanelNext]_vars

\* C25: once no debounce timer is pending, the engine holds the configuration
\* last written to the store; an update scheduled before resetToDefaults does
\* not replace the defaults afterwards
C25_EngineFollowsStore ==
    debounceTimeout = << >> => engineConfig = aiDetectionConfig

\* the weights of a configuration in the order of their keys
WeightList(cfg) == [ i \in DOMAIN Heuristics |-> cfg.weights[Heuristics[i]] ]

AsyncDocuments == { TrackedFile, UntitledBuffer }

\* the time between two notifications: within one log write, or a second
AsyncDelays == { 5, 1000 }

\* the end of onDocumentChange: lastChangeTime.set and updateTypingHistory
FinishChange(timestamp, contentChanges) ==
    /\ lastChangeTime' = << timestamp >>
    /\ typingHistory' = updateTypingHistory(typingHistory, timestamp, contentChanges)

\* one iteration, up to the await of the log write
LogOne(document, change, timestamp, window) ==
    changeLog' =
        Append(changeLog,
               changeEventLog(createEnhancedChangeEvent(document, change, timestamp, "live",
                                                        window),
                              timestamp))

\* onDocumentChange, from the notification to its first await
AsyncDocumentChange(document, contentChanges, delay, window) ==
    /\ tpc = "idle"
    /\ notified < MaxNotifications
    /\ notified' = notified + 1
    /\ now' = now + delay
    /\ IF document.scheme # "file" \/ shouldIgnoreFile(document.fileName)
       THEN UNCHANGED << handlers, changeTimes, changeLog, lastChangeTime, typingHistory >>
       ELSE /\ changeTimes' = Append(changeTimes, now')
            /\ IF contentChanges = << >>
               THEN /\ FinishChange(now', contentChanges)
                    /\ UNCHANGED << handlers, changeLog >>
               ELSE /\ LogOne(document, contentChanges[1], now', window)
                    /\ handlers' = Append(handlers,
                           [ document |-> document, contentChanges |-> contentChanges,
                             timestamp |-> now', pending |-> Tail(contentChanges) ])
                    /\ UNCHANGED << lastChangeTime, typingHistory >>
    /\ UNCHANGED << tpc, notification, pending, fileOpenTimes >>
    /\ UNCHANGED notAsync

\* a log write is done and its handler goes on: the next iteration, or the end
AsyncResume(h, window) ==
    /\ h \in DOMAIN handlers
    /\ IF handlers[h].pending = << >>
       THEN /\ FinishChange(handlers[h].timestamp, handlers[h].contentChanges)
            /\ handlers' = [ i \in 1 .. Len(handlers) - 1 |->
                               IF i < h THEN handlers[i] ELSE handlers[i + 1] ]
            /\ UNCHANGED changeLog
       ELSE /\ LogOne(handlers[h].document, handlers[h].pending[1], handlers[h].timestamp,
                      window)
            /\ handlers' = [ handlers EXCEPT ![h].pending = Tail(@) ]
            /\ UNCHANGED << lastChangeTime, typingHistory >>
    /\ UNCHANGED << tpc, now, notification, pending, fileOpenTimes, notified, changeTimes >>
    /\ UNCHANGED notAsync

\* onDocumentClose: the three entries of the file are deleted
DocumentClose(document, delay) ==
    /\ tpc = "idle"
    /\ notified < MaxNotifications
    /\ notified' = notified + 1
    /\ now' = now + delay
    /\ IF document.scheme # "file" \/ document # TrackedFile
       THEN UNCHANGED << fileOpenTimes, lastChangeTime, typingHistory >>
       ELSE /\ fileOpenTimes' = << >>
            /\ lastChangeTime' = << >>
            /\ typingHistory' = << >>
    /\ UNCHANGED << tpc, notification, pending, changeLog, handlers, changeTimes >>
    /\ UNCHANGED notAsync

AsyncInit == EngineInit

AsyncNext ==
    \/ /\ notified < MaxNotifications
       /\ \E document \in AsyncDocuments : \E contentChanges \in ChangeLists :
          \E delay \in AsyncDelays : \E window \in WindowStates :
              AsyncDocumentChange(document, contentChanges, delay, window)
    \/ \E h \in DOMAIN handlers : \E window \in WindowStates : AsyncResume(h, window)
    \/ /\ notified < MaxNotifications
       /\ \E document \in AsyncDocuments : \E delay \in AsyncDelays : DocumentClose(document, delay)

SpecTrackerAsync == AsyncInit /\ [][AsyncNext]_vars

\* the timestamp of the change notification before the one at time t, or the
\* session start
PrecedingChange(t) ==
    LET i == CHOOSE k \in DOMAIN changeTimes : changeTimes[k] = t
    IN  IF i = 1 THEN SessionStart ELSE changeTimes[i - 1]

\* C26: the timeSinceLastChange of every logged event is its timestamp minus
\* the timestamp of the change notification before its own for the same file,
\* or minus the session start when there is none, however the handlers and a
\* document close interleave
C26_TimeSincePrecedingChange ==
    \A i \in DOMAIN changeLog :
        changeLog[i].timeSinceLastChange =
            changeLog[i].timestamp - PrecedingChange(changeLog[i].timestamp)

(***************************************************************************)
(* The two JSONL parsers on the text of a file                             *)
(* DataService.ts 193-218 (parseJSONLFile), 220-288                        *)
(* (parseJSONLFileStreaming).  A text is a sequence of characters.  The    *)
(* JSON values of the model are three objects, written {e} and {f} (two    *)
(* change events) and {m} (a review metric with one timeline edit), and    *)
(* the object {}.                                                          *)
(***************************************************************************)

\* the white space JSON.parse accepts around a value
JSONSpace == { " ", "\t", "\n", "\r" }

\* the white space String.prototype.trim removes: also form feed (and vertical
\* tab, no-break space, the byte order mark)
TrimSpace == JSONSpace \cup { "\f" }

RECURSIVE stripLeft(_, _)
stripLeft(text, space) ==
    IF text # << >> /\ text[1] \in space THEN stripLeft(Tail(text), space) ELSE text

RECURSIVE stripRight(_, _)
stripRight(text, space) ==
    IF text # << >> /\ text[Len(text)] \in space
    THEN stripRight(SubSeq(text, 1, Len(text) - 1), space)
    ELSE text

\* String.prototype.trim
trim(text) == stripRight(stripLeft(text, TrimSpace), TrimSpace)

\* text.split('\n')
RECURSIVE split(_)
split(text) ==
    IF \A i \in DOMAIN text : text[i] # "\n" THEN << text >>
    ELSE LET i == CHOOSE k \in DOMAIN text :
                      text[k] = "\n" /\ \A j \in 1 .. k - 1 : text[j] # "\n"
         IN  << SubSeq(text, 1, i - 1) >> \o split(SubSeq(text, i + 1, Len(text)))

\* JSON.parse: the value, or threw
JSONparse(text) ==
    LET value == stripRight(stripLeft(text, JSONSpace), JSONSpace)
    IN  CASE value = << "{", "e", "}" >> ->
                [ threw |-> FALSE,
                  value |-> [ timestamp |-> 1, changeType |-> "insert", contentLength |-> 1 ] ]
          [] value = << "{", "f", "}" >> ->
                [ threw |-> FALSE,
                  value |-> [ timestamp |-> 2, changeType |-> "delete", contentLength |-> 0 ] ]
          [] value = << "{", "m", "}" >> ->
                [ threw |-> FALSE,
                  value |-> [ evidence |-> [ editTimeline |-> << [ timestamp |-> 3 ] >> ] ] ]
          [] value = << "{", "}" >> -> [ threw |-> FALSE, value |-> [ x \in { } |-> 0 ] ]
          [] OTHER -> [ threw |-> TRUE ]

\* convertReviewMetricToChangeEvents, an event kept as its timestamp and source;
\* the two simulated typing speeds (Math.random) are left out
convertReviewMetricToChangeEvents(metric) ==
    [ i \in DOMAIN metric.evidence.editTimeline |->
        [ timestamp |-> metric.evidence.editTimeline[i].timestamp, source |-> "live" ] ]

\* the body of the try block both parsers run on a line: JSON.parse and the
\* two shape tests; a line that throws adds nothing
eventsOfText(line) ==
    LET parsed == JSONparse(line)
    IN  IF parsed.threw THEN << >>
        ELSE IF { "timestamp", "changeType", "contentLength" } \subseteq DOMAIN parsed.value
             THEN << parsed.value >>
        ELSE IF "evidence" \in DOMAIN parsed.value
             THEN convertReviewMetricToChangeEvents(parsed.value)
        ELSE << >>

\* parseJSONLFile(content)
parseJSONLFileContent(text) ==
    LET lines == split(trim(text))
    IN  Flatten([ i \in DOMAIN lines |-> eventsOfText(lines[i]) ])

\* the streaming parser's handling of complete lines: blank ones are skipped
eventsOfLines(lines) ==
    Flatten([ i \in DOMAIN lines |->
                IF trim(lines[i]) # << >> THEN eventsOfText(lines[i]) ELSE << >> ])

\* the lines of the sample files
SampleLines ==
    { << "{", "e", "}" >>, << "{", "f", "}" >>, << "{", "m", "}" >>, << "{", "}" >>,
      << " ", "{", "e", "}" >>, << "{", "f", "}", "\f" >>, << "{", "e" >>, << >> }

\* lines joined with '\n'
RECURSIVE joinLines(_)
joinLines(lines) ==
    IF lines = << >> THEN << >>
    ELSE IF Len(lines) = 1 THEN lines[1]
    ELSE lines[1] \o << "\n" >> \o joinLines(Tail(lines))

\* file.stream().getReader() on a file with this text
StreamBegin(text) ==
    /\ stpc = "idle"
    /\ stpc' = "reading"
    /\ content' = text
    /\ offset' = 0
    /\ buffer' = << >>
    /\ streamEvents' = << >>
    /\ wholeEvents' = << >>
    /\ UNCHANGED notStream

\* one turn of the loop: reader.read() delivers the next n characters
StreamRead(n) ==
    /\ stpc = "reading"
    /\ offset + n <= Len(content)
    /\ LET lines == split(buffer \o SubSeq(content, offset + 1, offset + n))
       IN  /\ buffer' = lines[Len(lines)]
           /\ streamEvents' = streamEvents \o eventsOfLines(SubSeq(lines, 1, Len(lines) - 1))
    /\ offset' = offset + n
    /\ UNCHANGED << stpc, content, wholeEvents >>
    /\ UNCHANGED notStream

\* reader.read() reports done: the rest of the buffer is handled like a line
StreamDone ==
    /\ stpc = "reading"
    /\ offset = Len(content)
    /\ streamEvents' = streamEvents \o eventsOfLines(<< buffer >>)
    /\ stpc' = "parsed"
    /\ UNCHANGED << content, offset, buffer, wholeEvents >>
    /\ UNCHANGED notStream

\* the same text given to parseJSONLFile
ParseWhole ==
    /\ stpc = "parsed"
    /\ wholeEvents = << >>
    /\ wholeEvents' = << parseJSONLFileContent(content) >>
    /\ UNCHANGED << stpc, content, offset, buffer, streamEvents >>
    /\ UNCHANGED notStream

\* both results are dropped
StreamTake ==
    /\ stpc = "parsed"
    /\ wholeEvents # << >>
    /\ stpc' = "idle"
    /\ content' = << >>
    /\ offset' = 0
    /\ buffer' = << >>
    /\ streamEvents' = << >>
    /\ wholeEvents' = << >>
    /\ UNCHANGED notStream

StreamInit == EngineInit

StreamNext ==
    \/ /\ stpc = "idle"
       /\ \E k \in 0 .. MaxLines : \E lines \in [ 1 .. k -> SampleLines ] :
          \E ending \in { << >>, << "\n" >> } :
              StreamBegin(joinLines(lines) \o ending)
    \/ /\ stpc = "reading"
       /\ \E n \in 1 .. Len(content) - offset : StreamRead(n)
    \/ StreamDone
    \/ ParseWhole
    \/ StreamTake

SpecStream == StreamInit /\ [][StreamNext]_vars

\* C27: for every text and every way the reader cuts it into chunks, the
\* streaming parser returns the events parseJSONLFile returns, in the same order
C27_StreamingEqualsWhole ==
    wholeEvents # << >> => streamEvents = wholeEvents[1]

(***************************************************************************)
(* Log rotation                                                            *)
(* MetricsLogger.ts 211-245 (rotateLogsIfNeeded), 247-267                  *)
(* (cleanupOldArchives).  File names are sequences of characters; a        *)
(* timestamp is written with two digits.                                   *)
(***************************************************************************)

\* calls of rotateLogsIfNeeded in one explored run
MaxRotations == 6

\* the archives cleanupOldArchives keeps
KeptArchives == 5

\* two of rotateLogsIfNeeded's six logFiles; the other four never reach the
\* size or the age of a rotation in the explored runs
ChangeEventsLog ==
    << "c", "h", "a", "n", "g", "e", "-", "e", "v", "e", "n", "t", "s", ".", "j", "s", "o",
       "n", "l" >>

DebugTracesLog ==
    << "d", "e", "b", "u", "g", "-", "t", "r", "a", "c", "e", "s", ".", "j", "s", "o", "n",
       "l" >>

logFiles == << ChangeEventsLog, DebugTracesLog >>

DigitChars == << "0", "1", "2", "3", "4", "5", "6", "7", "8", "9" >>

\* `${n}` of a timestamp
timestampText(n) == << DigitChars[(n \div 10) + 1], DigitChars[(n % 10) + 1] >>

\* `${filename}.${Date.now()}.archive`
archiveName(filename, n) ==
    filename \o << "." >> \o timestampText(n) \o << ".", "a", "r", "c", "h", "i", "v", "e" >>

\* text.split(sep)
RECURSIVE splitOn(_, _)
splitOn(text, sep) ==
    IF \A i \in DOMAIN text : text[i] # sep THEN << text >>
    ELSE LET i == CHOOSE k \in DOMAIN text :
                      text[k] = sep /\ \A j \in 1 .. k - 1 : text[j] # sep
         IN  << SubSeq(text, 1, i - 1) >> \o splitOn(SubSeq(text, i + 1, Len(text)), sep)

\* the value of a digit character
DigitValue(ch) == (CHOOSE d \in DOMAIN DigitChars : DigitChars[d] = ch) - 1

\* the number the leading digits of text spell, after acc
RECURSIVE leadingNumber(_, _)
leadingNumber(text, acc) ==
    IF text # << >> /\ text[1] \in Digits
    THEN leadingNumber(Tail(text), 10 * acc + DigitValue(text[1]))
    ELSE acc

\* parseInt(text): << n >>, or << >> for NaN when text starts with no digit
parseInt(text) ==
    IF text # << >> /\ text[1] \in Digits THEN << leadingNumber(text, 0) >> ELSE << >>

\* (a, b) => b.timestamp - a.timestamp tells sort to put b before a
Before(b, a) == a.timestamp # << >> /\ b.timestamp # << >> /\ b.timestamp[1] > a.timestamp[1]

\* Array.prototype.sort with that comparator: a stable insertion; a NaN result
\* counts as 0 and leaves the two in their order
RECURSIVE insertSorted(_, _)
insertSorted(sorted, x) ==
    IF sorted = << >> THEN << x >>
    ELSE IF Before(x, sorted[Len(sorted)])
         THEN insertSorted(SubSeq(sorted, 1, Len(sorted) - 1), x) \o << sorted[Len(sorted)] >>
         ELSE Append(sorted, x)

RECURSIVE sortArchives(_)
sortArchives(archives) ==
    IF archives = << >> THEN << >>
    ELSE insertSorted(sortArchives(SubSeq(archives, 1, Len(archives) - 1)),
                      archives[Len(archives)])

\* the sorted archives of cleanupOldArchives for the listing files
archivesOf(files, baseFilename) ==
    LET matching == Filter(files, LAMBDA file :
            startsWith(file, baseFilename \o << "." >>)
            /\ endsWith(file, << ".", "a", "r", "c", "h", "i", "v", "e" >>))
    IN  sortArchives([ i \in DOMAIN matching |->
            [ name |-> matching[i], timestamp |-> parseInt(splitOn(matching[i], ".")[2]) ] ])

\* the names cleanupOldArchives unlinks: archives.slice(5)
toDelete(files, baseFilename) ==
    LET archives == archivesOf(files, baseFilename)
    IN  { archives[i].name : i \in KeptArchives + 1 .. Len(archives) }

\* the names of a directory that cleanupOldArchives' filter lets through
Matching(names, baseFilename) ==
    { file \in names :
        /\ startsWith(file, baseFilename \o << "." >>)
        /\ endsWith(file, << ".", "a", "r", "c", "h", "i", "v", "e" >>) }

\* the orders fs.readdir may list a set of names in
RECURSIVE Listings(_)
Listings(names) ==
    IF names = { } THEN { << >> }
    ELSE UNION { { << x >> \o rest : rest \in Listings(names \ { x }) } : x \in names }

\* the archives of a log created so far, oldest first
CreatedOf(filename) ==
    Filter(created, LAMBDA name : startsWith(name, filename \o << "." >>))

\* rotateLogsIfNeeded is called
RotateBegin ==
    /\ rotpc = "idle"
    /\ Len(created) < MaxRotations
    /\ clock < MaxRotations
    /\ rotpc' = "rotating"
    /\ fileIndex' = 1
    /\ clock' = clock + 1
    /\ UNCHANGED << directory, created >>
    /\ UNCHANGED notArchive

\* one turn of the loop for a log that is too large or too old: it is renamed
\* and cleanupOldArchives reads the directory; files is the order in which
\* readdir lists the names the filter lets through (the filter keeps it)
RotateFile ==
    /\ rotpc = "rotating"
    /\ fileIndex <= Len(logFiles)
    /\ Len(created) < MaxRotations
    /\ LET filename == logFiles[fileIndex]
           archive == archiveName(filename, clock)
       IN  /\ \E files \in Listings(Matching(directory \cup { archive }, filename)) :
                  directory' = (directory \cup { archive }) \ toDelete(files, filename)
           /\ created' = Append(created, archive)
    /\ fileIndex' = fileIndex + 1
    /\ UNCHANGED << rotpc, clock >>
    /\ UNCHANGED notArchive

\* one turn of the loop for a log that is small and recent, or missing
SkipFile ==
    /\ rotpc = "rotating"
    /\ fileIndex <= Len(logFiles)
    /\ fileIndex' = fileIndex + 1
    /\ UNCHANGED << rotpc, directory, created, clock >>
    /\ UNCHANGED notArchive

\* the loop is over
RotateEnd ==
    /\ rotpc = "rotating"
    /\ fileIndex > Len(logFiles)
    /\ rotpc' = "idle"
    /\ fileIndex' = 0
    /\ UNCHANGED << directory, created, clock >>
    /\ UNCHANGED notArchive

ArchiveInit == EngineInit

ArchiveNext ==
    \/ RotateBegin
    \/ RotateFile
    \/ SkipFile
    \/ RotateEnd

SpecArchive == ArchiveInit /\ [][ArchiveNext]_vars

\* C29: after any sequence of rotations at most 5 archives of each log file are
\* in the directory, and they are the 5 created last
C29_FiveNewestArchivesKept ==
    \A f \in DOMAIN logFiles :
        LET made == CreatedOf(logFiles[f])
            kept == { name \in directory : startsWith(name, logFiles[f] \o << "." >>) }
        IN  /\ Cardinality(kept) <= KeptArchives
            /\ kept = { made[i] : i \in
                          { k \in DOMAIN made : k > Len(made) - KeptArchives } }

\* C30: for every non-empty history ordered by timestamp, the counts of
\* editingVelocityOverTime in the logged time metrics sum to the number of its
\* events: each event is counted in exactly one five-minute window
C30_VelocityCountsEveryEvent ==
    (rpc = "returned" /\ rChanges # << >> /\ reviewLog # << >>) =>
        ISum(reviewLog[1].timeMetrics.editingVelocityOverTime) = Len(rChanges)

====
